---- MODULE Spec2Model ----
(***************************************************************************)
(* A model of the RAG pipeline of rag_service.py: the chunker              *)
(* (_chunk_text), the metadata compositor (_combine_text_for_embedding),   *)
(* the ingest operation (add_document), alone and in concurrent calls, the *)
(* query operation (query), update_document, and                           *)
(* generate_response_with_context of llm_service.py, with the embedding,   *)
(* vector-store and generation providers as nondeterministic               *)
(* collaborators.                                                          *)
(*                                                                         *)
(* Strings are sequences of one-character strings, except that a literal   *)
(* of the source ("Patient Name: ", "Medical Notes: ", ...) is kept as one *)
(* element: concatenation of strings is concatenation of sequences.        *)
(***************************************************************************)
EXTENDS Integers, Sequences, FiniteSets, TLC

VARIABLES
    \* ---- one call of _chunk_text, statement by statement
    text,            \* parameter text
    chunk_size,      \* parameter chunk_size
    overlap,         \* parameter overlap
    start,           \* local start
    iterations,      \* local iterations
    chunks,          \* local chunks (the value returned)
    starts,          \* history: the value of start at each chunks.append
    broke,           \* TRUE once the break of line 54 was taken
    warned,          \* TRUE once the max_iterations warning was logged
    cpc,             \* position in _chunk_text: "idle", "call", "loop", "returned"
    \* ---- one call of _combine_text_for_embedding
    chunk,           \* parameter chunk
    metadata,        \* parameter metadata: a mapping from keys to strings
    combined,        \* the value returned (combined_text)
    kpc,             \* position: "idle", "call", "returned"
    \* ---- one call of query
    query_text,      \* parameter query_text
    top_k,           \* parameter top_k
    similar_docs,    \* local similar_docs: the matches of the vector store
    context_parts,   \* local context_parts
    context,         \* local context
    response,        \* the value returned
    calls,           \* history: the provider calls of this query, in order
    qpc,             \* position: "idle", "call", "embedded", "retrieved",
                     \* "assembled", "returned", or "raised" when an
                     \* exception left query
    \* ---- one call of add_document, and the index of the vector store
    doc_content,     \* parameter content
    doc_metadata,    \* parameter metadata (None behaves as {} on every path)
    doc_chunks,      \* local chunks
    vector_data,     \* local vector_data
    result,          \* the value returned
    embed_calls,     \* history: the calls of get_single_embedding of this
                     \* add_document: the text passed, the vector returned
    upsert_calls,    \* history: the calls of upsert_vectors of this
                     \* add_document: the batch passed, whether it succeeded
    store,           \* the records of the index, by id
    next_uuid,       \* the next value of uuid.uuid4()
    apc,             \* position: "idle", "call", "loop", "returned", or
                     \* "raised" when an exception left add_document
    \* ---- one call of update_document
    upd_doc_id,      \* parameter doc_id
    upd_content,     \* parameter content
    upd_metadata,    \* parameter metadata
    store_before,    \* history: the index when update_document was called
    delete_calls,    \* history: the calls of delete_vectors, in order
    upd_result,      \* the value returned
    upc,             \* position: "idle", "call", "deleted", "ingest",
                     \* "returned", or "raised" when an exception left
                     \* update_document
    \* ---- concurrent calls of add_document on the one index
    callers,         \* for each caller the parameters, the locals, the
                     \* position and the history of its add_document
    \* ---- one call of LLMService.generate_response_with_context
    llm_context,     \* parameter context: None or a string
    llm_query,       \* parameter query
    user_message,    \* local user_message, the content of the user message
    llm_result,      \* the value returned
    llm_error,       \* the exception that left the call, "" when none
    lpc,             \* position: "idle", "call", "logged", "built",
                     \* "returned", "raised"
    \* ---- the events of WebhookProcessor.process_webhook, one after another
    wh_data,         \* parameter data of the event being processed
    wh_result,       \* the value returned
    wh_rag_calls,    \* history: the add_document calls of this event, each
                     \* with its content, metadata and result
    wh_log,          \* history: the events processed so far, each with the
                     \* event type, the record and the value returned
    wpc,             \* position: "idle", "received", "ingest", "returned",
                     \* or "raised" when an exception left process_webhook
    \* ---- the metadata objects of one call of add_document
    heap,            \* the mappings that exist, by reference
    md_ref,          \* parameter metadata: a reference, or NoRef for None
    md_before,       \* history: the caller's mapping when the call began
    md_chunks,       \* local chunks
    md_records,      \* local vector_data, each record with the reference of
                     \* its metadata
    md_result,       \* the value returned
    md_content,      \* the content argument of the call
    hpc              \* position: "idle", "call", "loop", "returned"

chunkVars == <<text, chunk_size, overlap, start, iterations, chunks, starts,
               broke, warned, cpc>>

combineVars == <<chunk, metadata, combined, kpc>>

queryVars == <<query_text, top_k, similar_docs, context_parts, context,
               response, calls, qpc>>

ingestVars == <<doc_content, doc_metadata, doc_chunks, vector_data, result,
                embed_calls, upsert_calls, store, next_uuid, apc>>

updateVars == <<upd_doc_id, upd_content, upd_metadata, store_before,
                delete_calls, upd_result, upc>>

concVars == <<callers>>

llmVars == <<llm_context, llm_query, user_message, llm_result, llm_error, lpc>>

webhookVars == <<wh_data, wh_result, wh_rag_calls, wh_log, wpc>>

heapVars == <<heap, md_ref, md_before, md_chunks, md_records, md_result,
              md_content, hpc>>

vars == <<chunkVars, combineVars, queryVars, ingestVars, updateVars, concVars,
          llmVars, webhookVars, heapVars>>

\* what a call of one operation leaves alone: the state of the others
exceptChunk == <<combineVars, queryVars, ingestVars, updateVars, concVars,
                 llmVars, webhookVars, heapVars>>
exceptCombine == <<chunkVars, queryVars, ingestVars, updateVars, concVars,
                   llmVars, webhookVars, heapVars>>
exceptQuery == <<chunkVars, combineVars, ingestVars, updateVars, concVars,
                 llmVars, webhookVars, heapVars>>
exceptIngest == <<chunkVars, combineVars, queryVars, updateVars, concVars,
                  llmVars, webhookVars, heapVars>>
exceptUpdate == <<chunkVars, combineVars, queryVars, concVars, llmVars,
                  webhookVars, heapVars>>
exceptConc == <<chunkVars, combineVars, queryVars, updateVars, llmVars,
                webhookVars, heapVars>>
exceptLlm == <<chunkVars, combineVars, queryVars, ingestVars, updateVars,
               concVars, webhookVars, heapVars>>
exceptWebhook == <<chunkVars, combineVars, queryVars, updateVars, concVars,
                   llmVars, heapVars>>
exceptHeap == <<chunkVars, combineVars, queryVars, ingestVars, updateVars,
                concVars, llmVars, webhookVars>>

----------------------------------------------------------------------------
(* Bounds of the model *)

\* longest text of the exhaustively enumerated chunker inputs
MaxLen == 4
\* largest chunk_size and overlap of the exhaustively enumerated inputs
MaxParam == 3
\* largest number of keys of the exhaustively enumerated metadata mappings
MaxKeys == 3
\* largest top_k of a query, and so the longest list of matches
MaxTopK == 3

(* Program constants *)

\* def _chunk_text(self, text, chunk_size: int = 1000, overlap: int = 100)
DefaultChunkSize == 1000
DefaultOverlap == 100

----------------------------------------------------------------------------
(* Helpers: Python built-ins *)

Min(a, b) == IF a <= b THEN a ELSE b
Max(a, b) == IF a >= b THEN a ELSE b

\* Python s[a:b] for integers a, b: a negative index counts from the end, an
\* index past either end is clamped, and an empty range gives the empty string.
PySlice(s, a, b) ==
    LET n  == Len(s)
        lo == IF a < 0 THEN Max(a + n, 0) ELSE Min(a, n)
        hi == IF b < 0 THEN Max(b + n, 0) ELSE Min(b, n)
    IN  IF lo < hi THEN SubSeq(s, lo + 1, hi) ELSE <<>>

\* the characters of the model's texts
Alphabet == {"a", "b"}

\* all texts of length at most n over Alphabet
TextsUpTo(n) == UNION { [1..k -> Alphabet] : k \in 0..n }

\* a text of length n whose i-th character is the last decimal digit of i
Digit == <<"0", "1", "2", "3", "4", "5", "6", "7", "8", "9">>
MkText(n) == [i \in 1..n |-> Digit[(i % 10) + 1]]

----------------------------------------------------------------------------
(* RAGService._chunk_text *)

\* the cap without its margin of 10 and with a floor of 1
MaxIterationsTight(t, cs, ov) == Max(1, Len(t) \div Max(1, cs - ov))

\* max_iterations = max(10, (text_length // max(1, chunk_size - overlap)) + 10)
MaxIterations(t, cs, ov) == Max(10, (Len(t) \div Max(1, cs - ov)) + 10)

\* the locals of the loop before its first iteration (lines 34-40)
ChunkStart == [start |-> 0, iterations |-> 0, chunks |-> <<>>,
               starts |-> <<>>, broke |-> FALSE]

\* the loop condition without the iteration cap
ChunkCondNoCap(t, cs, ov, st) ==
    /\ ~st.broke
    /\ st.start < Len(t)

\* while start < text_length and iterations < max_iterations (line 42); the
\* break of line 54 leaves the loop without evaluating the condition again
ChunkCond(t, cs, ov, st) ==
    /\ ~st.broke
    /\ st.start < Len(t)
    /\ st.iterations < MaxIterations(t, cs, ov)

\* the next cursor with the overlap added instead of subtracted
NextStartPlus(end, ov) == Max(0, end + ov)

\* next_start = max(0, end - overlap) (line 48)
NextStart(end, ov) == Max(0, end - ov)

\* the loop body leaving the loop as soon as a chunk ends at the end of the text
ChunkBodyStopAtEnd(t, cs, ov, st) ==
    LET text_length == Len(t)
        end         == Min(st.start + cs, text_length)
        appended    == [st EXCEPT !.chunks = Append(@, PySlice(t, st.start, end)),
                                  !.starts = Append(@, st.start)]
        next_start  == NextStart(end, ov)
    IN  IF end >= text_length
        THEN [appended EXCEPT !.broke = TRUE]
        ELSE IF next_start <= st.start
             THEN [appended EXCEPT !.start = end, !.iterations = @ + 1]
             ELSE [appended EXCEPT !.start = next_start, !.iterations = @ + 1]

\* the loop body without the forced advance: the cursor always becomes next_start
ChunkBodyNoForce(t, cs, ov, st) ==
    LET text_length == Len(t)
        end         == Min(st.start + cs, text_length)
        appended    == [st EXCEPT !.chunks = Append(@, PySlice(t, st.start, end)),
                                  !.starts = Append(@, st.start)]
        next_start  == NextStart(end, ov)
    IN  IF next_start <= st.start /\ end >= text_length
        THEN [appended EXCEPT !.broke = TRUE]
        ELSE [appended EXCEPT !.start = next_start, !.iterations = @ + 1]

\* one execution of the loop body (lines 43-60)
ChunkBody(t, cs, ov, st) ==
    LET text_length == Len(t)
        end         == Min(st.start + cs, text_length)
        appended    == [st EXCEPT !.chunks = Append(@, PySlice(t, st.start, end)),
                                  !.starts = Append(@, st.start)]
        next_start  == NextStart(end, ov)
    IN  IF next_start <= st.start
        THEN IF end >= text_length
             THEN [appended EXCEPT !.broke = TRUE]
             ELSE [appended EXCEPT !.start = end, !.iterations = @ + 1]
        ELSE [appended EXCEPT !.start = next_start, !.iterations = @ + 1]

RECURSIVE ChunkLoop(_, _, _, _)
ChunkLoop(t, cs, ov, st) ==
    IF ChunkCond(t, cs, ov, st)
    THEN ChunkLoop(t, cs, ov, ChunkBody(t, cs, ov, st))
    ELSE st

\* _chunk_text as a function: the list it returns
chunk_text(t, cs, ov) ==
    IF t = <<>> THEN <<>> ELSE ChunkLoop(t, cs, ov, ChunkStart).chunks

\* the locals as a record, and back
ChunkLocals == [start |-> start, iterations |-> iterations, chunks |-> chunks,
                starts |-> starts, broke |-> broke]

\* the inputs of the chunker: every small text with every small chunk_size and
\* overlap (negative and zero included), the spec's two scenarios, and
\* default-sized calls
ChunkInputs ==
    ({ <<t, cs, ov>> : t \in TextsUpTo(MaxLen),
                       cs \in (-1)..MaxParam, ov \in (-1)..MaxParam })
    \cup { <<MkText(2400), DefaultChunkSize, DefaultOverlap>>,
           <<MkText(50), 10, 15>>,
           <<MkText(500), DefaultChunkSize, DefaultOverlap>> }

\* the empty mapping {}
EmptyDict == <<>>

\* update_document catching nothing below it: delete_vectors without its try
CatchesExceptDelete(f) ==
    f \in {"add_document", "query", "upsert_vectors", "query_similar",
           "process_webhook", "_handle_insert", "_handle_update",
           "_handle_delete"}

\* the webhook processor without a try of its own
CatchesExceptWebhook(f) ==
    f \in {"add_document", "query", "upsert_vectors", "query_similar",
           "delete_vectors"}

\* query_similar without its try: the failure reaches the except of query
CatchesExceptQuerySimilar(f) ==
    f \in {"add_document", "query", "upsert_vectors", "delete_vectors",
           "process_webhook", "_handle_insert", "_handle_update",
           "_handle_delete"}

\* the functions whose whole body is inside try: ... except Exception
\* (rag_service.py lines 110/151 and 157/197, pinecone_service.py lines
\* 61/80, 96/119 and 143/149, webhook_processor.py lines 22/37, 45/56,
\* 64/79 and 87/93); update_document (lines 202-204) has none
CatchesException(f) ==
    f \in {"add_document", "query", "upsert_vectors", "query_similar",
           "delete_vectors", "process_webhook", "_handle_insert",
           "_handle_update", "_handle_delete"}

\* a value handed over as a mapping: kind is "dict" when it is one
Payload(kind, map) == [kind |-> kind, map |-> map]

\* no webhook event is being modelled
WebhookIdle ==
    /\ wh_data = Payload("idle", EmptyDict)
    /\ wh_result = FALSE
    /\ wh_rag_calls = <<>>
    /\ wh_log = <<>>
    /\ wpc = "idle"

\* the reference that stands for None
NoRef == "None"

\* no metadata objects are being modelled
HeapIdle ==
    /\ heap = <<>>
    /\ md_ref = NoRef
    /\ md_before = EmptyDict
    /\ md_chunks = <<>>
    /\ md_records = <<>>
    /\ md_result = FALSE
    /\ md_content = <<>>
    /\ hpc = "idle"

\* no call of _combine_text_for_embedding is being modelled
CombineIdle ==
    /\ chunk = <<>>
    /\ metadata = EmptyDict
    /\ combined = <<>>
    /\ kpc = "idle"

\* no call of add_document is being modelled, and the index is empty
IngestIdle ==
    /\ doc_content = <<>>
    /\ doc_metadata = EmptyDict
    /\ doc_chunks = <<>>
    /\ vector_data = <<>>
    /\ result = FALSE
    /\ embed_calls = <<>>
    /\ upsert_calls = <<>>
    /\ store = EmptyDict
    /\ next_uuid = 1
    /\ apc = "idle"

\* no call of update_document is being modelled
UpdateIdle ==
    /\ upd_doc_id = 0
    /\ upd_content = <<>>
    /\ upd_metadata = EmptyDict
    /\ store_before = EmptyDict
    /\ delete_calls = <<>>
    /\ upd_result = FALSE
    /\ upc = "idle"

\* no concurrent callers are being modelled
ConcIdle == callers = <<>>

\* the value None
NoneValue == [kind |-> "none", s |-> <<>>]

\* a string as a value that may also be None
Str(s) == [kind |-> "str", s |-> s]

\* no call of generate_response_with_context is being modelled
LlmIdle ==
    /\ llm_context = Str(<<>>)
    /\ llm_query = <<>>
    /\ user_message = <<>>
    /\ llm_result = <<>>
    /\ llm_error = ""
    /\ lpc = "idle"

\* no call of query is being modelled
QueryIdle ==
    /\ query_text = <<>>
    /\ top_k = 0
    /\ similar_docs = <<>>
    /\ context_parts = <<>>
    /\ context = <<>>
    /\ response = <<>>
    /\ calls = <<>>
    /\ qpc = "idle"

\* no call of _chunk_text is being modelled
ChunkIdle ==
    /\ text = <<>>
    /\ chunk_size = DefaultChunkSize
    /\ overlap = DefaultOverlap
    /\ start = 0
    /\ iterations = 0
    /\ chunks = <<>>
    /\ starts = <<>>
    /\ broke = FALSE
    /\ warned = FALSE
    /\ cpc = "idle"

ChunkInit ==
    /\ \E inp \in ChunkInputs :
          /\ text = inp[1]
          /\ chunk_size = inp[2]
          /\ overlap = inp[3]
    /\ start = 0
    /\ iterations = 0
    /\ chunks = <<>>
    /\ starts = <<>>
    /\ broke = FALSE
    /\ warned = FALSE
    /\ cpc = "call"
    /\ UpdateIdle
    /\ WebhookIdle
    /\ HeapIdle
    /\ LlmIdle
    /\ ConcIdle
    /\ CombineIdle
    /\ QueryIdle
    /\ IngestIdle

\* if not text: return []   (lines 31-32)
ChunkEmpty ==
    /\ cpc = "call"
    /\ text = <<>>
    /\ cpc' = "returned"
    /\ UNCHANGED <<text, chunk_size, overlap, start, iterations, chunks,
                   starts, broke, warned>>
    /\ UNCHANGED exceptChunk

\* lines 34-40
ChunkEnter ==
    /\ cpc = "call"
    /\ text # <<>>
    /\ start' = ChunkStart.start
    /\ iterations' = ChunkStart.iterations
    /\ chunks' = ChunkStart.chunks
    /\ starts' = ChunkStart.starts
    /\ broke' = ChunkStart.broke
    /\ cpc' = "loop"
    /\ UNCHANGED <<text, chunk_size, overlap, warned>>
    /\ UNCHANGED exceptChunk

\* one iteration of the while loop (lines 42-60)
ChunkIterate ==
    /\ cpc = "loop"
    /\ ChunkCond(text, chunk_size, overlap, ChunkLocals)
    /\ LET st == ChunkBody(text, chunk_size, overlap, ChunkLocals)
       IN  /\ start' = st.start
           /\ iterations' = st.iterations
           /\ chunks' = st.chunks
           /\ starts' = st.starts
           /\ broke' = st.broke
    /\ UNCHANGED <<text, chunk_size, overlap, warned, cpc>>
    /\ UNCHANGED exceptChunk

\* the loop is left; warn if the cap was reached; return chunks (lines 62-68)
ChunkReturn ==
    /\ cpc = "loop"
    /\ ~ChunkCond(text, chunk_size, overlap, ChunkLocals)
    /\ warned' = (iterations >= MaxIterations(text, chunk_size, overlap))
    /\ cpc' = "returned"
    /\ UNCHANGED <<text, chunk_size, overlap, start, iterations, chunks,
                   starts, broke>>
    /\ UNCHANGED exceptChunk

ChunkNext == ChunkEmpty \/ ChunkEnter \/ ChunkIterate \/ ChunkReturn

SpecChunk == ChunkInit /\ [][ChunkNext]_vars

----------------------------------------------------------------------------
(* RAGService._combine_text_for_embedding *)

\* Python d.get(k, default)
DictGet(d, k, default) == IF k \in DOMAIN d THEN d[k] ELSE default

\* Python truthiness of a string
Truthy(s) == s # <<>>

\* a lookup that falls through to the second key when the first is empty:
\* metadata.get(k1) or metadata.get(k2, "")
Get2Or(d, k1, k2) ==
    IF Truthy(DictGet(d, k1, <<>>)) THEN d[k1] ELSE DictGet(d, k2, <<>>)

\* metadata.get(k1, metadata.get(k2, ""))   (lines 77, 78)
Get2(d, k1, k2) == DictGet(d, k1, DictGet(d, k2, <<>>))

\* metadata.get(k1, metadata.get(k2, metadata.get(k3, "")))   (line 81)
Get3(d, k1, k2, k3) == DictGet(d, k1, Get2(d, k2, k3))

\* if value: parts.append(f"{label}{value}")
AppendField(parts, label, value) ==
    IF Truthy(value) THEN Append(parts, <<label>> \o value) ELSE parts

NL == "\n"

\* Python sep.join(parts)
RECURSIVE Join(_, _)
Join(parts, sep) ==
    IF parts = <<>> THEN <<>>
    ELSE IF Len(parts) = 1 THEN parts[1]
    ELSE parts[1] \o sep \o Join(Tail(parts), sep)

\* the parts list built by lines 77-104
CombineParts(c, m) ==
    LET patient_name   == Get2(m, "patient_name", "patient")
        patient_id     == Get2(m, "patient_id", "id")
        patient_age    == DictGet(m, "age", <<>>)
        patient_gender == DictGet(m, "gender", <<>>)
        date_time      == Get3(m, "date_time", "visit_date", "date")
        doctor         == DictGet(m, "doctor", <<>>)
        source         == DictGet(m, "source", <<>>)
        p1 == AppendField(<<>>, "Patient Name: ", patient_name)
        p2 == AppendField(p1, "Patient ID: ", patient_id)
        p3 == AppendField(p2, "Age: ", patient_age)
        p4 == AppendField(p3, "Gender: ", patient_gender)
        p5 == AppendField(p4, "Date/Time: ", date_time)
        p6 == AppendField(p5, "Doctor: ", doctor)
        p7 == AppendField(p6, "Source: ", source)
    IN  Append(p7, <<"Medical Notes: ">> \o c)

\* combined_text = "\n".join(parts)   (lines 106-107)
combine_text_for_embedding(c, m) == Join(CombineParts(c, m), <<NL>>)

\* the metadata keys the compositor reads, and one it does not
CombineKeys == {"patient_name", "patient", "patient_id", "id", "age", "gender",
                "date_time", "visit_date", "date", "doctor", "source"}
OtherKeys == {"table"}

\* metadata values: the empty string and two names
MetaValues == {<<>>, <<"a">>, <<"b">>}

\* all mappings from a subset of K to MetaValues
MetasOver(K) == UNION { [S -> MetaValues] : S \in SUBSET K }

\* the metadata mappings of the model: every mapping with at most MaxKeys
\* keys, and the mapping that gives every key its own value
FullMeta == [k \in CombineKeys \cup OtherKeys |-> <<k>>]
MetaInputs ==
    (UNION { [S -> MetaValues] :
               S \in { T \in SUBSET (CombineKeys \cup OtherKeys) :
                          Cardinality(T) <= MaxKeys } })
    \cup {FullMeta}

ChunkTexts == {<<"a">>, <<"b", "a">>}

CombineInit ==
    /\ UpdateIdle
    /\ WebhookIdle
    /\ HeapIdle
    /\ LlmIdle
    /\ ConcIdle
    /\ ChunkIdle
    /\ QueryIdle
    /\ IngestIdle
    /\ chunk \in ChunkTexts
    /\ metadata \in MetaInputs
    /\ combined = <<>>
    /\ kpc = "call"

\* the whole function: lines 70-107
Combine ==
    /\ kpc = "call"
    /\ combined' = combine_text_for_embedding(chunk, metadata)
    /\ kpc' = "returned"
    /\ UNCHANGED <<chunk, metadata>>
    /\ UNCHANGED exceptCombine

SpecCombine == CombineInit /\ [][Combine]_vars

----------------------------------------------------------------------------
(* RAGService.query *)

\* A match returned by the vector store. doc.get("metadata", {}) is a mapping
\* (kind "dict", the mapping in map), missing (kind "absent": the default {}
\* is used) or something that is not a mapping (kind "other").
Match(kind, map) == [kind |-> kind, map |-> map]

\* meta = doc.get("metadata", {})   (line 166)
DocMetadata(doc) ==
    IF doc.kind = "absent" THEN Match("dict", EmptyDict) ELSE doc

\* the guard without the test: every match is used
HasContentAlways(meta) == TRUE

\* isinstance(meta, dict) and "content" in meta   (line 167)
HasContent(meta) == meta.kind = "dict" /\ "content" \in DOMAIN meta.map

\* the field is listed whenever its key is present, empty or not
AppendInfoPresent(info, meta, key, label) ==
    IF key \in DOMAIN meta.map
    THEN Append(info, <<label>> \o meta.map[key])
    ELSE info

\* if meta.get(key): metadata_info.append(f"{label}{meta[key]}")
AppendInfo(info, meta, key, label) ==
    IF Truthy(DictGet(meta.map, key, <<>>))
    THEN Append(info, <<label>> \o meta.map[key])
    ELSE info

\* metadata_info of lines 169-177
MetadataInfo(meta) ==
    LET i1 == AppendInfo(<<>>, meta, "patient_name", "Patient: ")
        i2 == AppendInfo(i1, meta, "patient_id", "Patient ID: ")
        i3 == AppendInfo(i2, meta, "date_time", "Date: ")
        i4 == AppendInfo(i3, meta, "doctor", "Doctor: ")
    IN  i4

\* context_entry of lines 180-182
ContextEntry(meta) ==
    LET metadata_info == MetadataInfo(meta)
        content       == meta.map["content"]
    IN  IF metadata_info # <<>>
        THEN <<"[">> \o Join(metadata_info, <<", ">>) \o <<"] ">> \o content
        ELSE content

\* the for loop of lines 165-185, the matches taken from the last to the first
RECURSIVE ContextPartsReversed(_)
ContextPartsReversed(docs) ==
    IF docs = <<>> THEN [raised |-> FALSE, parts |-> <<>>]
    ELSE LET meta == DocMetadata(docs[Len(docs)])
             rest == ContextPartsReversed(SubSeq(docs, 1, Len(docs) - 1))
         IN  IF rest.raised THEN rest
             ELSE IF ~HasContent(meta) THEN rest
             ELSE [rest EXCEPT !.parts = <<ContextEntry(meta)>> \o @]

\* the for loop of lines 165-185: context_parts, or raised when meta["content"]
\* is evaluated on a metadata that is no mapping or has no such key (KeyError,
\* TypeError)
RECURSIVE ContextParts(_)
ContextParts(docs) ==
    IF docs = <<>> THEN [raised |-> FALSE, parts |-> <<>>]
    ELSE LET meta == DocMetadata(docs[Len(docs)])
             rest == ContextParts(SubSeq(docs, 1, Len(docs) - 1))
         IN  IF rest.raised THEN rest
             ELSE IF ~HasContent(meta) THEN rest
             ELSE IF meta.kind # "dict" \/ "content" \notin DOMAIN meta.map
                  THEN [rest EXCEPT !.raised = TRUE]
                  ELSE [rest EXCEPT !.parts = Append(@, ContextEntry(meta))]

\* the separator of line 187: "\n\n"
ContextSeparator == <<NL, NL>>

\* the test of line 190 replaced by True
UseContextAlways(c) == TRUE

\* if context:   (line 190)
UseContext(c) == Truthy(c)

NotFoundPhrase ==
    <<"I could not find this information in the patient's medical records.">>
ErrorPhrase == <<"Sorry, an error occurred.">>

\* what the generation provider may answer
LLMAnswers == {<<"answer">>, NotFoundPhrase, <<>>}

\* the matches of the model: every mapping over the keys query reads with
\* values "" and "a", a missing metadata and a metadata that is no mapping
QueryKeys == {"content", "patient_name", "patient_id", "date_time", "doctor"}
MatchPool ==
    { Match("dict", m) : m \in UNION { [S -> {<<>>, <<"a">>}] : S \in SUBSET QueryKeys } }
    \cup { Match("absent", EmptyDict), Match("other", EmptyDict) }

\* the same mappings with, under each key, "" or a value of its own
MatchPoolAttributed ==
    { Match("dict", [k \in S |-> IF k \in E THEN <<>> ELSE <<"<", k, ">">>]) :
        S \in SUBSET QueryKeys, E \in SUBSET QueryKeys }

\* the matches of the lists of two and more
MatchPoolSmall ==
    { Match("other", EmptyDict),
      Match("dict", [patient_name |-> <<"a">>]),
      Match("dict", [content |-> <<"a">>]),
      Match("dict", [content |-> <<"b">>, patient_name |-> <<"a">>, doctor |-> <<"c">>]),
      Match("dict", [content |-> <<>>]),
      Match("dict", [content |-> <<"c", NL, NL, "d">>, date_time |-> <<>>]) }

\* the lists of at most k matches the vector store may return
MatchLists(k) ==
    { <<d>> : d \in MatchPool \cup MatchPoolAttributed }
    \cup UNION { [1..n -> MatchPoolSmall] : n \in 0..k }

QueryInit ==
    /\ UpdateIdle
    /\ WebhookIdle
    /\ HeapIdle
    /\ LlmIdle
    /\ ConcIdle
    /\ ChunkIdle
    /\ CombineIdle
    /\ IngestIdle
    /\ query_text \in {<<"q">>, <<>>}
    /\ top_k \in 1..MaxTopK
    /\ similar_docs = <<>>
    /\ context_parts = <<>>
    /\ context = <<>>
    /\ response = <<>>
    /\ calls = <<>>
    /\ qpc = "call"

Call(op, arg, ok) == [op |-> op, arg |-> arg, ok |-> ok]

\* a provider call that returned ret
CallReturning(op, arg, ret) == [op |-> op, arg |-> arg, ok |-> TRUE, ret |-> ret]

\* an empty generation is answered with the not-found phrase
ReturnedResponseOrNotFound(r) == IF r = <<>> THEN NotFoundPhrase ELSE r

\* response = self.llm_service.generate_response_with_context(...);
\* return response   (lines 191-195)
ReturnedResponse(r) == r

\* query_embedding = self.embedding_service.get_single_embedding(query_text)
\* returns   (line 159)
QueryEmbed ==
    /\ qpc = "call"
    /\ calls' = Append(calls, Call("embed", query_text, TRUE))
    /\ qpc' = "embedded"
    /\ UNCHANGED <<query_text, top_k, similar_docs, context_parts, context,
                   response>>
    /\ UNCHANGED exceptQuery

\* get_single_embedding raises; the except of lines 197-200 returns the error
\* phrase
QueryEmbedRaises ==
    /\ qpc = "call"
    /\ calls' = Append(calls, Call("embed", query_text, FALSE))
    /\ IF CatchesException("query")
       THEN response' = ErrorPhrase /\ qpc' = "returned"
       ELSE UNCHANGED response /\ qpc' = "raised"
    /\ UNCHANGED <<query_text, top_k, similar_docs, context_parts, context>>
    /\ UNCHANGED exceptQuery

\* similar_docs = self.vector_store.query_similar(query_embedding, top_k)
\* (line 161); the index answers with at most top_k matches
QueryRetrieve ==
    /\ qpc = "embedded"
    /\ calls' = Append(calls, Call("query_similar", top_k, TRUE))
    /\ similar_docs' \in MatchLists(top_k)
    /\ qpc' = "retrieved"
    /\ UNCHANGED <<query_text, top_k, context_parts, context, response>>
    /\ UNCHANGED exceptQuery

\* the index query raises inside query_similar, which returns []
\* (pinecone_service.py lines 119-122)
QueryRetrieveFails ==
    /\ qpc = "embedded"
    /\ calls' = Append(calls, Call("query_similar", top_k, FALSE))
    /\ IF CatchesException("query_similar")
       THEN similar_docs' = <<>> /\ qpc' = "retrieved" /\ UNCHANGED response
       ELSE /\ UNCHANGED similar_docs
            /\ IF CatchesException("query")
               THEN response' = ErrorPhrase /\ qpc' = "returned"
               ELSE UNCHANGED response /\ qpc' = "raised"
    /\ UNCHANGED <<query_text, top_k, context_parts, context>>
    /\ UNCHANGED exceptQuery

\* lines 164-188: build context_parts and join them
QueryAssemble ==
    /\ qpc = "retrieved"
    /\ LET r == ContextParts(similar_docs)
       IN  IF r.raised
           THEN /\ IF CatchesException("query")
                   THEN response' = ErrorPhrase /\ qpc' = "returned"
                   ELSE UNCHANGED response /\ qpc' = "raised"
                /\ UNCHANGED <<context_parts, context>>
           ELSE /\ context_parts' = r.parts
                /\ context' = Join(r.parts, ContextSeparator)
                /\ qpc' = "assembled"
                /\ UNCHANGED response
    /\ UNCHANGED <<query_text, top_k, similar_docs, calls>>
    /\ UNCHANGED exceptQuery

\* response = self.llm_service.generate_response_with_context(context,
\* query_text) returns; return response   (lines 190-195)
QueryGenerate ==
    /\ qpc = "assembled"
    /\ UseContext(context)
    /\ \E answer \in LLMAnswers :
          /\ calls' = Append(calls, CallReturning("generate",
                                                 <<context, query_text>>, answer))
          /\ response' = ReturnedResponse(answer)
    /\ qpc' = "returned"
    /\ UNCHANGED <<query_text, top_k, similar_docs, context_parts, context>>
    /\ UNCHANGED exceptQuery

\* generate_response_with_context raises; the except of lines 197-200
QueryGenerateRaises ==
    /\ qpc = "assembled"
    /\ UseContext(context)
    /\ calls' = Append(calls, Call("generate", <<context, query_text>>, FALSE))
    /\ IF CatchesException("query")
       THEN response' = ErrorPhrase /\ qpc' = "returned"
       ELSE UNCHANGED response /\ qpc' = "raised"
    /\ UNCHANGED <<query_text, top_k, similar_docs, context_parts, context>>
    /\ UNCHANGED exceptQuery

\* else: response = "I could not find ..."; return response (lines 192-195)
QueryNotFound ==
    /\ qpc = "assembled"
    /\ ~UseContext(context)
    /\ response' = NotFoundPhrase
    /\ qpc' = "returned"
    /\ UNCHANGED <<query_text, top_k, similar_docs, context_parts, context,
                   calls>>
    /\ UNCHANGED exceptQuery

QueryNext ==
    \/ QueryEmbed
    \/ QueryEmbedRaises
    \/ QueryRetrieve
    \/ QueryRetrieveFails
    \/ QueryAssemble
    \/ QueryGenerate
    \/ QueryGenerateRaises
    \/ QueryNotFound

SpecQuery == QueryInit /\ [][QueryNext]_vars

----------------------------------------------------------------------------
(* RAGService.add_document and PineconeService.upsert_vectors *)

\* the embedding vectors the provider may answer with
Embeddings == {"e1", "e2"}

\* an integer as a metadata value
IntValue(n) == <<ToString(n)>>

\* Python d[k] = v on a copy of d
DictSet(d, k, v) == [x \in DOMAIN d \cup {k} |-> IF x = k THEN v ELSE d[x]]

\* chunk_metadata built from an empty mapping instead of a copy of metadata
ChunkMetadataNoCopy(m, c, i, total) ==
    DictSet(DictSet(DictSet(EmptyDict, "content", c), "chunk_index", IntValue(i)),
            "total_chunks", IntValue(total))

\* chunk_metadata of lines 129-132, for the chunk of 0-based index i
ChunkMetadata(m, c, i, total) ==
    DictSet(DictSet(DictSet(m, "content", c), "chunk_index", IntValue(i)),
            "total_chunks", IntValue(total))

\* the record of lines 135-139
VectorRecord(doc_id, embedding, chunk_metadata) ==
    [id |-> doc_id, values |-> embedding, metadata |-> chunk_metadata]

\* an upsert that replaces the content of the index by the batch
UpsertedReplacing(index, vectors) ==
    [id \in { vectors[j].id : j \in 1..Len(vectors) } |->
        LET j == CHOOSE l \in 1..Len(vectors) : vectors[l].id = id
        IN  [values |-> vectors[j].values, metadata |-> vectors[j].metadata]]

\* the index after index.upsert(vectors): insert or overwrite by id
Upserted(index, vectors) ==
    [id \in DOMAIN index \cup { vectors[j].id : j \in 1..Len(vectors) } |->
        IF \E j \in 1..Len(vectors) : vectors[j].id = id
        THEN LET last == CHOOSE j \in 1..Len(vectors) :
                            /\ vectors[j].id = id
                            /\ \A l \in 1..Len(vectors) : vectors[l].id = id => l <= j
             IN  [values |-> vectors[last].values, metadata |-> vectors[last].metadata]
        ELSE index[id]]

\* the embedding provider is given the raw chunk
EmbedInputRaw(c, m) == c

\* combined_text = self._combine_text_for_embedding(chunk, metadata or {}),
\* the argument of get_single_embedding   (lines 120-123)
EmbedInput(c, m) == combine_text_for_embedding(c, m)

\* one call of get_single_embedding: ret is the vector, or "raised"
EmbedCall(t, ret) == [text |-> t, ret |-> ret]

\* one call of upsert_vectors
UpsertCall(vectors, ok) == [vectors |-> vectors, ok |-> ok]

\* add_document returning True whatever upsert_vectors returned
ReturnOfUpsertTrue(ok) == TRUE

\* result = self.vector_store.upsert_vectors(vector_data); return result
\* (lines 147-149)
ReturnOfUpsert(ok) == ok

\* the test of line 142 replaced by False
NothingToUpsertNever(vd) == FALSE

\* if not vector_data:   (line 142)
NothingToUpsert(vd) == vd = <<>>

\* the documents of the model: empty, shorter than the overlap, shorter than a
\* chunk, exactly one chunk long, and longer than two chunks
Documents == {<<>>, MkText(2), MkText(500), MkText(1000), MkText(2400)}

\* the metadata mappings of the documents
DocumentMetas ==
    { EmptyDict,
      [patient_id |-> <<"P1">>, patient_name |-> <<"Jane Doe">>,
       date_time |-> <<"d">>, source |-> <<"soap_notes">>],
      [patient |-> <<"Bob">>, content |-> <<"mine">>] }

IngestInit ==
    /\ UpdateIdle
    /\ WebhookIdle
    /\ HeapIdle
    /\ LlmIdle
    /\ ConcIdle
    /\ ChunkIdle
    /\ CombineIdle
    /\ QueryIdle
    /\ doc_content \in Documents
    /\ doc_metadata \in DocumentMetas
    /\ doc_chunks = <<>>
    /\ vector_data = <<>>
    /\ result = FALSE
    /\ embed_calls = <<>>
    /\ upsert_calls = <<>>
    /\ store = EmptyDict
    /\ next_uuid = 1
    /\ apc = "call"

\* chunks = self._chunk_text(content); vector_data = []   (lines 113-115)
AddChunk ==
    /\ apc = "call"
    /\ doc_chunks' = chunk_text(doc_content, DefaultChunkSize, DefaultOverlap)
    /\ vector_data' = <<>>
    /\ apc' = "loop"
    /\ UNCHANGED <<doc_content, doc_metadata, result, embed_calls,
                   upsert_calls, store, next_uuid>>
    /\ UNCHANGED exceptIngest

\* one iteration of the for loop in which the embedding call returns
\* (lines 117-140)
AddProcessChunk ==
    /\ apc = "loop"
    /\ Len(vector_data) < Len(doc_chunks)
    /\ LET i             == Len(vector_data)
           c             == doc_chunks[i + 1]
           combined_text == EmbedInput(c, doc_metadata)
           doc_id        == next_uuid
       IN  \E embedding \in Embeddings :
              /\ embed_calls' = Append(embed_calls, EmbedCall(combined_text, embedding))
              /\ next_uuid' = next_uuid + 1
              /\ vector_data' =
                    Append(vector_data,
                           VectorRecord(doc_id, embedding,
                                        ChunkMetadata(doc_metadata, c, i,
                                                      Len(doc_chunks))))
    /\ UNCHANGED <<doc_content, doc_metadata, doc_chunks, result,
                   upsert_calls, store, apc>>
    /\ UNCHANGED exceptIngest

\* an iteration in which get_single_embedding raises: the except of lines
\* 151-154 returns False
AddEmbedRaises ==
    /\ apc = "loop"
    /\ Len(vector_data) < Len(doc_chunks)
    /\ embed_calls' =
          Append(embed_calls,
                 EmbedCall(EmbedInput(doc_chunks[Len(vector_data) + 1],
                                      doc_metadata), "raised"))
    /\ IF CatchesException("add_document")
       THEN result' = FALSE /\ apc' = "returned"
       ELSE UNCHANGED result /\ apc' = "raised"
    /\ UNCHANGED <<doc_content, doc_metadata, doc_chunks, vector_data,
                   upsert_calls, store, next_uuid>>
    /\ UNCHANGED exceptIngest

\* if not vector_data: return True   (lines 142-144)
AddNothingToUpsert ==
    /\ apc = "loop"
    /\ Len(vector_data) = Len(doc_chunks)
    /\ NothingToUpsert(vector_data)
    /\ result' = TRUE
    /\ apc' = "returned"
    /\ UNCHANGED <<doc_content, doc_metadata, doc_chunks, vector_data,
                   embed_calls, upsert_calls, store, next_uuid>>
    /\ UNCHANGED exceptIngest

\* result = self.vector_store.upsert_vectors(vector_data); return result
\* (lines 146-149), the index accepting the batch
\* (pinecone_service.py lines 61-79)
AddUpsert ==
    /\ apc = "loop"
    /\ Len(vector_data) = Len(doc_chunks)
    /\ ~NothingToUpsert(vector_data)
    /\ upsert_calls' = Append(upsert_calls, UpsertCall(vector_data, TRUE))
    /\ store' = Upserted(store, vector_data)
    /\ result' = ReturnOfUpsert(TRUE)
    /\ apc' = "returned"
    /\ UNCHANGED <<doc_content, doc_metadata, doc_chunks, vector_data,
                   embed_calls, next_uuid>>
    /\ UNCHANGED exceptIngest

\* the same, index.upsert raising: upsert_vectors returns False
\* (pinecone_service.py lines 80-83); the index is taken to store nothing
\* of a batch whose upsert raised
AddUpsertFails ==
    /\ apc = "loop"
    /\ Len(vector_data) = Len(doc_chunks)
    /\ ~NothingToUpsert(vector_data)
    /\ upsert_calls' = Append(upsert_calls, UpsertCall(vector_data, FALSE))
    /\ IF CatchesException("upsert_vectors")
       THEN result' = ReturnOfUpsert(FALSE) /\ apc' = "returned"
       ELSE IF CatchesException("add_document")
            THEN result' = FALSE /\ apc' = "returned"
            ELSE UNCHANGED result /\ apc' = "raised"
    /\ UNCHANGED <<doc_content, doc_metadata, doc_chunks, vector_data,
                   embed_calls, store, next_uuid>>
    /\ UNCHANGED exceptIngest

IngestNext ==
    \/ AddChunk
    \/ AddProcessChunk
    \/ AddEmbedRaises
    \/ AddNothingToUpsert
    \/ AddUpsert
    \/ AddUpsertFails

SpecIngest == IngestInit /\ [][IngestNext]_vars

----------------------------------------------------------------------------
(* RAGService.update_document and PineconeService.delete_vectors *)

\* an index.delete that removes nothing
DeletedNothing(index, ids) == index

\* self.index.delete(ids=ids): the index without the records of these ids
\* (pinecone_service.py line 145)
Deleted(index, ids) ==
    [k \in DOMAIN index \ {ids[i] : i \in 1..Len(ids)} |-> index[k]]

\* one call of delete_vectors
DeleteCall(ids, ok) == [ids |-> ids, ok |-> ok]

\* the ids a caller passes as doc_id: the id of a stored record, or an id
\* that no record has
CallerIds(index) == DOMAIN index \cup {0}

\* the first versions: a document of one chunk and a document of two chunks
OldDocuments == {MkText(2), MkText(101)}

\* the new versions: empty, one chunk, two chunks
NewDocuments == {<<>>, MkText(3), MkText(102)}

\* the metadata of the versions
UpdateMetas == {EmptyDict, [patient_id |-> <<"P1">>, source |-> <<"soap_notes">>]}

\* a first version is being stored by add_document; update_document is
\* called after that call has returned
UpdateInit ==
    /\ ChunkIdle
    /\ CombineIdle
    /\ QueryIdle
    /\ UpdateIdle
    /\ WebhookIdle
    /\ HeapIdle
    /\ LlmIdle
    /\ ConcIdle
    /\ doc_content \in OldDocuments
    /\ doc_metadata \in UpdateMetas
    /\ doc_chunks = <<>>
    /\ vector_data = <<>>
    /\ result = FALSE
    /\ embed_calls = <<>>
    /\ upsert_calls = <<>>
    /\ store = EmptyDict
    /\ next_uuid = 1
    /\ apc = "call"

\* update_document(doc_id, content, metadata) is called (line 202), with the
\* id of a stored record or an id the index does not hold
UpdateCall ==
    /\ upc = "idle"
    /\ apc = "returned"
    /\ upd_doc_id' \in CallerIds(store)
    /\ upd_content' \in NewDocuments
    /\ upd_metadata' \in UpdateMetas
    /\ store_before' = store
    /\ upc' = "call"
    /\ UNCHANGED <<delete_calls, upd_result>>
    /\ UNCHANGED ingestVars
    /\ UNCHANGED exceptUpdate

\* self.vector_store.delete_vectors([doc_id]) (line 203), the index
\* deleting; the value returned is not looked at
UpdateDelete ==
    /\ upc = "call"
    /\ delete_calls' = Append(delete_calls, DeleteCall(<<upd_doc_id>>, TRUE))
    /\ store' = Deleted(store, <<upd_doc_id>>)
    /\ upc' = "deleted"
    /\ UNCHANGED <<upd_doc_id, upd_content, upd_metadata, store_before,
                   upd_result>>
    /\ UNCHANGED <<doc_content, doc_metadata, doc_chunks, vector_data, result,
                   embed_calls, upsert_calls, next_uuid, apc>>
    /\ UNCHANGED exceptUpdate

\* the same, index.delete raising: delete_vectors returns False
\* (pinecone_service.py lines 149-152), which update_document does not
\* look at; update_document itself has no try
UpdateDeleteFails ==
    /\ upc = "call"
    /\ delete_calls' = Append(delete_calls, DeleteCall(<<upd_doc_id>>, FALSE))
    /\ upc' = IF CatchesException("delete_vectors") THEN "deleted" ELSE "raised"
    /\ UNCHANGED <<upd_doc_id, upd_content, upd_metadata, store_before,
                   upd_result>>
    /\ UNCHANGED ingestVars
    /\ UNCHANGED exceptUpdate

\* self.add_document(content, metadata) is called   (line 204)
UpdateIngest ==
    /\ upc = "deleted"
    /\ doc_content' = upd_content
    /\ doc_metadata' = upd_metadata
    /\ doc_chunks' = <<>>
    /\ vector_data' = <<>>
    /\ result' = FALSE
    /\ embed_calls' = <<>>
    /\ upsert_calls' = <<>>
    /\ apc' = "call"
    /\ upc' = "ingest"
    /\ UNCHANGED <<store, next_uuid>>
    /\ UNCHANGED <<upd_doc_id, upd_content, upd_metadata, store_before,
                   delete_calls, upd_result>>
    /\ UNCHANGED exceptUpdate

\* return self.add_document(content, metadata)   (line 204)
UpdateReturn ==
    /\ upc = "ingest"
    /\ apc \in {"returned", "raised"}
    /\ IF apc = "raised"
       THEN upc' = "raised" /\ UNCHANGED upd_result
       ELSE upc' = "returned" /\ upd_result' = result
    /\ UNCHANGED <<upd_doc_id, upd_content, upd_metadata, store_before,
                   delete_calls>>
    /\ UNCHANGED ingestVars
    /\ UNCHANGED exceptUpdate

UpdateNext ==
    \/ IngestNext
    \/ UpdateCall
    \/ UpdateDelete
    \/ UpdateDeleteFails
    \/ UpdateIngest
    \/ UpdateReturn

SpecUpdate == UpdateInit /\ [][UpdateNext]_vars

\* the service answering one request: a query, or an add_document followed
\* by an update_document
ServiceInit == QueryInit \/ UpdateInit

ServiceNext == QueryNext \/ UpdateNext

SpecService == ServiceInit /\ [][ServiceNext]_vars

----------------------------------------------------------------------------
(* add_document with its mappings as objects: the caller's metadata and the *)
(* chunk_metadata of each record are references into a heap of mappings.    *)

\* the documents of the calls: from no chunk to four chunks
HeapDocuments ==
    {<<>>, MkText(2), MkText(101), MkText(1001), MkText(2400)}

\* the mappings the caller passes: empty, the keys of the SOAP endpoint, and
\* mappings that have the reserved keys themselves
HeapMetas ==
    { EmptyDict,
      [patient_name |-> <<"Jane">>, doctor |-> <<"Dr">>],
      [content |-> <<"mine">>],
      [chunk_index |-> <<"9">>, total_chunks |-> <<"9">>, source |-> <<"s">>],
      [patient |-> <<"Bob">>, content |-> <<>>] }

\* the reference of the next object created
NewRef(h) == ToString(Cardinality(DOMAIN h) + 1)

\* the heap with a new object holding the mapping m
Alloc(h, m) ==
    [r \in DOMAIN h \cup {NewRef(h)} |-> IF r = NewRef(h) THEN m ELSE h[r]]

\* Python truthiness of metadata: neither None nor an empty mapping
TruthyRef(h, ref) == ref # NoRef /\ h[ref] # EmptyDict

\* Python obj[k] = v on the object of reference ref
SetItem(h, ref, k, v) == [h EXCEPT ![ref] = DictSet(@, k, v)]

\* chunk_metadata bound to the caller's mapping itself instead of a copy
ChunkMetadataAlias(h, mref) ==
    IF TruthyRef(h, mref)
    THEN [heap |-> h, ref |-> mref]
    ELSE [heap |-> Alloc(h, EmptyDict), ref |-> NewRef(h)]

\* chunk_metadata = metadata.copy() if metadata else {}   (line 129): a new
\* object either way; the values are strings, so the shallow copy shares
\* nothing that can be written
ChunkMetadataRef(h, mref) ==
    [heap |-> Alloc(h, IF TruthyRef(h, mref) THEN h[mref] ELSE EmptyDict),
     ref  |-> NewRef(h)]

\* lines 130-132 on the object of reference ref
ChunkMetadataWritten(h, ref, c, i, total) ==
    SetItem(SetItem(SetItem(h, ref, "content", c),
                    ref, "chunk_index", IntValue(i)),
            ref, "total_chunks", IntValue(total))

HeapInit ==
    /\ ChunkIdle
    /\ CombineIdle
    /\ QueryIdle
    /\ IngestIdle
    /\ UpdateIdle
    /\ WebhookIdle
    /\ ConcIdle
    /\ LlmIdle
    /\ md_content \in HeapDocuments
    /\ \/ /\ heap = <<>>
          /\ md_ref = NoRef
          /\ md_before = EmptyDict
       \/ \E m \in HeapMetas :
             /\ heap = Alloc(<<>>, m)
             /\ md_ref = NewRef(<<>>)
             /\ md_before = m
    /\ md_chunks = <<>>
    /\ md_records = <<>>
    /\ md_result = FALSE
    /\ hpc = "call"

\* chunks = self._chunk_text(content); vector_data = []   (lines 113-115)
HeapChunk ==
    /\ hpc = "call"
    /\ md_chunks' = chunk_text(md_content, DefaultChunkSize, DefaultOverlap)
    /\ md_records' = <<>>
    /\ hpc' = "loop"
    /\ UNCHANGED <<heap, md_ref, md_before, md_result, md_content>>
    /\ UNCHANGED exceptHeap

\* one iteration of the for loop in which the embedding call returns
\* (lines 117-140); _combine_text_for_embedding only reads its mapping
HeapProcessChunk ==
    /\ hpc = "loop"
    /\ Len(md_records) < Len(md_chunks)
    /\ LET i  == Len(md_records)
           c  == md_chunks[i + 1]
           cm == ChunkMetadataRef(heap, md_ref)
       IN  \E embedding \in Embeddings :
              /\ heap' = ChunkMetadataWritten(cm.heap, cm.ref, c, i,
                                              Len(md_chunks))
              /\ md_records' =
                    Append(md_records, VectorRecord(i + 1, embedding, cm.ref))
    /\ UNCHANGED <<md_ref, md_before, md_chunks, md_result, md_content, hpc>>
    /\ UNCHANGED exceptHeap

\* get_single_embedding raises in an iteration: except Exception, return
\* False (lines 151-154)
HeapEmbedRaises ==
    /\ hpc = "loop"
    /\ Len(md_records) < Len(md_chunks)
    /\ md_result' = FALSE
    /\ hpc' = "returned"
    /\ UNCHANGED <<heap, md_ref, md_before, md_chunks, md_records, md_content>>
    /\ UNCHANGED exceptHeap

\* if not vector_data: return True   (lines 142-144)
HeapNothingToUpsert ==
    /\ hpc = "loop"
    /\ Len(md_records) = Len(md_chunks)
    /\ NothingToUpsert(md_records)
    /\ md_result' = TRUE
    /\ hpc' = "returned"
    /\ UNCHANGED <<heap, md_ref, md_before, md_chunks, md_records, md_content>>
    /\ UNCHANGED exceptHeap

\* return self.vector_store.upsert_vectors(vector_data)   (lines 146-149):
\* upsert_vectors puts each record's id, values and metadata object into a
\* new record and writes to none of them (pinecone_service.py lines 67-73);
\* ok is whether index.upsert returned
HeapUpsert ==
    /\ hpc = "loop"
    /\ Len(md_records) = Len(md_chunks)
    /\ ~NothingToUpsert(md_records)
    /\ \E ok \in BOOLEAN : md_result' = ReturnOfUpsert(ok)
    /\ hpc' = "returned"
    /\ UNCHANGED <<heap, md_ref, md_before, md_chunks, md_records, md_content>>
    /\ UNCHANGED exceptHeap

HeapNext ==
    \/ HeapChunk
    \/ HeapProcessChunk
    \/ HeapEmbedRaises
    \/ HeapNothingToUpsert
    \/ HeapUpsert

SpecHeap == HeapInit /\ [][HeapNext]_vars

----------------------------------------------------------------------------
(* A document stored by add_document and then retrieved by query: the index *)
(* answers the query with records it holds.                                  *)

\* the documents stored: empty, one chunk, two chunks
RoundTripDocuments == {<<>>, MkText(2), MkText(101)}

\* the metadata of the documents: none, the keys of the SOAP endpoint, each
\* synonym key on its own, and an empty name beside its synonym
RoundTripMetas ==
    { EmptyDict,
      [patient_name |-> <<"Jane">>, patient_id |-> <<"P1">>,
       date_time |-> <<"d1">>, doctor |-> <<"Dr">>],
      [patient |-> <<"Bob">>],
      [id |-> <<"7">>],
      [visit_date |-> <<"d2">>],
      [date |-> <<"d3">>, doctor |-> <<"Who">>],
      [patient_name |-> <<>>, patient |-> <<"Bob">>] }

\* the lists of at most k matches the index may answer with from the records
\* it holds: each match carries the metadata of its record
StoredMatchLists(index, k) ==
    LET most == Min(k, Cardinality(DOMAIN index))
    IN  UNION { { [i \in 1..n |-> Match("dict", index[f[i]].metadata)] :
                    f \in { g \in [1..n -> DOMAIN index] :
                              \A a, b \in 1..n : a # b => g[a] # g[b] } } :
                n \in 0..most }

RoundTripInit ==
    /\ ChunkIdle
    /\ CombineIdle
    /\ QueryIdle
    /\ UpdateIdle
    /\ WebhookIdle
    /\ HeapIdle
    /\ ConcIdle
    /\ LlmIdle
    /\ doc_content \in RoundTripDocuments
    /\ doc_metadata \in RoundTripMetas
    /\ doc_chunks = <<>>
    /\ vector_data = <<>>
    /\ result = FALSE
    /\ embed_calls = <<>>
    /\ upsert_calls = <<>>
    /\ store = EmptyDict
    /\ next_uuid = 1
    /\ apc = "call"

\* query(query_text, top_k) is called after add_document returned
\* (line 156)
RoundTripQuery ==
    /\ apc = "returned"
    /\ qpc = "idle"
    /\ query_text' = <<"q">>
    /\ top_k' \in 1..MaxTopK
    /\ qpc' = "call"
    /\ UNCHANGED <<similar_docs, context_parts, context, response, calls>>
    /\ UNCHANGED exceptQuery

\* similar_docs = self.vector_store.query_similar(query_embedding, top_k)
\* (line 161), the index answering with records it holds
QueryRetrieveStored ==
    /\ qpc = "embedded"
    /\ calls' = Append(calls, Call("query_similar", top_k, TRUE))
    /\ similar_docs' \in StoredMatchLists(store, top_k)
    /\ qpc' = "retrieved"
    /\ UNCHANGED <<query_text, top_k, context_parts, context, response>>
    /\ UNCHANGED exceptQuery

RoundTripNext ==
    \/ IngestNext
    \/ RoundTripQuery
    \/ QueryEmbed
    \/ QueryEmbedRaises
    \/ QueryRetrieveStored
    \/ QueryRetrieveFails
    \/ QueryAssemble
    \/ QueryGenerate
    \/ QueryGenerateRaises
    \/ QueryNotFound

SpecRoundTrip == RoundTripInit /\ [][RoundTripNext]_vars

----------------------------------------------------------------------------
(* WebhookProcessor   (webhook_processor.py): the events are processed one   *)
(* after another on one index.                                               *)

\* the number of events processed
MaxEvents == 2

\* record_data: a mapping given by its items in order, or no mapping
RecordData(kind, items) == [kind |-> kind, items |-> items]

Item(k, v) == [k |-> k, v |-> v]

\* record_data.get(key, default)
ItemGet(items, key, default) ==
    LET hits == { i \in 1..Len(items) : items[i].k = key }
    IN  IF hits = {} THEN default ELSE items[CHOOSE i \in hits : TRUE].v

\* the keys left out of the document   (line 105)
SkippedKeys == {"id", "created_at", "updated_at"}

\* document_parts of lines 102-106
RECURSIVE DocumentParts(_, _)
DocumentParts(table_name, items) ==
    IF items = <<>> THEN << <<"Table: ">> \o table_name >>
    ELSE LET last == items[Len(items)]
             rest == DocumentParts(table_name, SubSeq(items, 1, Len(items) - 1))
         IN  IF last.k \notin SkippedKeys
             THEN Append(rest, <<last.k, ": ">> \o last.v)
             ELSE rest

\* _format_record_as_document   (lines 97-108)
format_record_as_document(table_name, record_data) ==
    Join(DocumentParts(table_name, record_data.items), <<NL>>)

\* the key of the timestamp of an operation   (lines 52, 72)
TimestampKey(operation) ==
    IF operation = "INSERT" THEN "created_at" ELSE "updated_at"

\* metadata of lines 48-53 and 68-73
HandlerMetadata(operation, table_name, record_data) ==
    [table     |-> table_name,
     operation |-> <<operation>>,
     record_id |-> ItemGet(record_data.items, "id", <<>>),
     timestamp |-> ItemGet(record_data.items, TimestampKey(operation), <<>>)]

\* event_type, table_name, record_data of lines 23-25
EventType(data) == DictGet(data.map, "event", "")
TableName(data) == DictGet(data.map, "table", <<>>)
RecordOf(data) == DictGet(data.map, "data", RecordData("dict", <<>>))

\* the records of the events: an empty one, a record, a later version of
\* it, and a value that is no mapping
WebhookRecords ==
    { RecordData("dict", <<>>),
      RecordData("dict", <<Item("id", <<"7">>), Item("name", <<"Ann">>),
                           Item("created_at", <<"c">>)>>),
      RecordData("dict", <<Item("id", <<"7">>), Item("name", <<"Bea">>),
                           Item("updated_at", <<"u">>)>>),
      RecordData("none", <<>>) }

\* the payloads: every event type, one that is unknown, with every record;
\* payloads without event, or without table and data; no mapping at all
Payloads ==
    { Payload("dict", [event |-> e, table |-> <<"t">>, data |-> r]) :
        e \in {"INSERT", "UPDATE", "DELETE", "insert"}, r \in WebhookRecords }
    \cup { Payload("dict", [table |-> <<"t">>,
                            data |-> RecordData("dict", <<Item("name", <<"Ann">>)>>)]) }
    \cup { Payload("dict", [event |-> e]) : e \in {"INSERT", "DELETE"} }
    \cup { Payload("other", EmptyDict) }

WebhookInit ==
    /\ ChunkIdle
    /\ CombineIdle
    /\ QueryIdle
    /\ IngestIdle
    /\ UpdateIdle
    /\ ConcIdle
    /\ LlmIdle
    /\ HeapIdle
    /\ WebhookIdle

\* process_webhook(data) is called   (line 12); the locals of the call of
\* add_document of the event before are gone
WebhookReceive ==
    /\ wpc \in {"idle", "returned"}
    /\ Len(wh_log) < MaxEvents
    /\ wh_data' \in Payloads
    /\ wh_result' = FALSE
    /\ wh_rag_calls' = <<>>
    /\ wpc' = "received"
    /\ doc_content' = <<>>
    /\ doc_metadata' = EmptyDict
    /\ doc_chunks' = <<>>
    /\ vector_data' = <<>>
    /\ result' = FALSE
    /\ embed_calls' = <<>>
    /\ upsert_calls' = <<>>
    /\ apc' = "idle"
    /\ UNCHANGED <<wh_log, store, next_uuid>>
    /\ UNCHANGED exceptWebhook

\* data is no mapping: data.get raises (line 23), the except of lines 37-39
\* returns False
WebhookMalformed ==
    /\ wpc = "received"
    /\ wh_data.kind # "dict"
    /\ IF CatchesException("process_webhook")
       THEN /\ wh_result' = FALSE
            /\ wpc' = "returned"
            /\ wh_log' = Append(wh_log, [event |-> "", result |-> FALSE])
       ELSE /\ wpc' = "raised"
            /\ UNCHANGED <<wh_result, wh_log>>
    /\ UNCHANGED <<wh_data, wh_rag_calls>>
    /\ UNCHANGED ingestVars
    /\ UNCHANGED exceptWebhook

\* _handle_insert up to its call of add_document   (lines 27-28, 45-55)
WebhookInsert ==
    /\ wpc = "received"
    /\ wh_data.kind = "dict"
    /\ EventType(wh_data) = "INSERT"
    /\ RecordOf(wh_data).kind = "dict"
    /\ doc_content' = format_record_as_document(TableName(wh_data), RecordOf(wh_data))
    /\ doc_metadata' = HandlerMetadata("INSERT", TableName(wh_data), RecordOf(wh_data))
    /\ apc' = "call"
    /\ wpc' = "ingest"
    /\ UNCHANGED <<doc_chunks, vector_data, result, embed_calls, upsert_calls,
                   store, next_uuid>>
    /\ UNCHANGED <<wh_data, wh_result, wh_rag_calls, wh_log>>
    /\ UNCHANGED exceptWebhook

\* _handle_update up to its call of add_document   (lines 29-30, 64-78)
WebhookUpdate ==
    /\ wpc = "received"
    /\ wh_data.kind = "dict"
    /\ EventType(wh_data) = "UPDATE"
    /\ RecordOf(wh_data).kind = "dict"
    /\ doc_content' = format_record_as_document(TableName(wh_data), RecordOf(wh_data))
    /\ doc_metadata' = HandlerMetadata("UPDATE", TableName(wh_data), RecordOf(wh_data))
    /\ apc' = "call"
    /\ wpc' = "ingest"
    /\ UNCHANGED <<doc_chunks, vector_data, result, embed_calls, upsert_calls,
                   store, next_uuid>>
    /\ UNCHANGED <<wh_data, wh_result, wh_rag_calls, wh_log>>
    /\ UNCHANGED exceptWebhook

\* record_data is no mapping: record_data.items() raises in
\* _format_record_as_document, the except of the handler returns False
\* (lines 56-58, 79-81)
WebhookHandlerRaises ==
    /\ wpc = "received"
    /\ wh_data.kind = "dict"
    /\ EventType(wh_data) \in {"INSERT", "UPDATE"}
    /\ RecordOf(wh_data).kind # "dict"
    /\ IF \/ CatchesException(IF EventType(wh_data) = "INSERT"
                               THEN "_handle_insert" ELSE "_handle_update")
          \/ CatchesException("process_webhook")
       THEN /\ wh_result' = FALSE
            /\ wpc' = "returned"
            /\ wh_log' = Append(wh_log, [event |-> EventType(wh_data),
                                         result |-> FALSE])
       ELSE /\ wpc' = "raised"
            /\ UNCHANGED <<wh_result, wh_log>>
    /\ UNCHANGED <<wh_data, wh_rag_calls>>
    /\ UNCHANGED ingestVars
    /\ UNCHANGED exceptWebhook

\* return self.rag_service.add_document(content, metadata)
\* (lines 55, 78)
WebhookReturn ==
    /\ wpc = "ingest"
    /\ apc \in {"returned", "raised"}
    /\ LET r == IF apc = "raised" THEN FALSE ELSE result
       IN  /\ wh_result' = r
           /\ wh_rag_calls' = Append(wh_rag_calls,
                                     [content |-> doc_content,
                                      metadata |-> doc_metadata,
                                      result |-> r])
           /\ wh_log' = Append(wh_log, [event |-> EventType(wh_data),
                                        result |-> r])
    /\ wpc' = "returned"
    /\ UNCHANGED wh_data
    /\ UNCHANGED ingestVars
    /\ UNCHANGED exceptWebhook

\* _handle_delete: nothing is deleted, True is returned
\* (lines 31-32, 87-92)
WebhookDelete ==
    /\ wpc = "received"
    /\ wh_data.kind = "dict"
    /\ EventType(wh_data) = "DELETE"
    /\ wh_result' = TRUE
    /\ wpc' = "returned"
    /\ wh_log' = Append(wh_log, [event |-> "DELETE", result |-> TRUE])
    /\ UNCHANGED <<wh_data, wh_rag_calls>>
    /\ UNCHANGED ingestVars
    /\ UNCHANGED exceptWebhook

\* any other event type, the missing one included: return False
\* (lines 33-35)
WebhookUnknown ==
    /\ wpc = "received"
    /\ wh_data.kind = "dict"
    /\ EventType(wh_data) \notin {"INSERT", "UPDATE", "DELETE"}
    /\ wh_result' = FALSE
    /\ wpc' = "returned"
    /\ wh_log' = Append(wh_log, [event |-> EventType(wh_data), result |-> FALSE])
    /\ UNCHANGED <<wh_data, wh_rag_calls>>
    /\ UNCHANGED ingestVars
    /\ UNCHANGED exceptWebhook

\* the steps of add_document are those of its own model; a document of a
\* handler begins with 'Table: ', so that the return of lines 142-144 for
\* a document without chunks is never taken
WebhookNext ==
    \/ WebhookReceive
    \/ WebhookMalformed
    \/ WebhookInsert
    \/ WebhookUpdate
    \/ WebhookHandlerRaises
    \/ WebhookReturn
    \/ WebhookDelete
    \/ WebhookUnknown
    \/ AddChunk
    \/ AddProcessChunk
    \/ AddEmbedRaises
    \/ AddUpsert
    \/ AddUpsertFails

SpecWebhook == WebhookInit /\ [][WebhookNext]_vars

----------------------------------------------------------------------------
(* Concurrent calls of RAGService.add_document on one index: the steps of   *)
(* lines 113-149 for each caller, interleaved at the calls of the providers; *)
(* the locals of add_document are per caller, the index and the source of   *)
(* uuids are shared.                                                         *)

\* the number of concurrent callers
NumCallers == 2

Callers == 1..NumCallers

\* the documents of the callers: empty, one chunk, two chunks
ConcDocuments == {<<>>, MkText(2), MkText(101)}

\* the vector of a text: one vector for the whole texts, another for the
\* trailing chunks
ConcEmbedding(t) == IF Len(t) > DefaultOverlap THEN "e1" ELSE "e2"

\* each caller tags its document with a source of its own
ConcMetadata(c) == [source |-> <<"caller", ToString(c)>>]

ConcInit ==
    /\ ChunkIdle
    /\ CombineIdle
    /\ QueryIdle
    /\ UpdateIdle
    /\ WebhookIdle
    /\ HeapIdle
    /\ LlmIdle
    /\ IngestIdle
    /\ \E docs \in [Callers -> ConcDocuments] :
          callers = [c \in Callers |->
                       [content |-> docs[c], metadata |-> ConcMetadata(c),
                        chunks |-> <<>>, vector_data |-> <<>>,
                        result |-> FALSE, upserts |-> <<>>, pc |-> "call"]]

\* what a step of a caller leaves alone
ConcFrame ==
    /\ UNCHANGED <<doc_content, doc_metadata, doc_chunks, vector_data, result,
                   embed_calls, upsert_calls, apc>>
    /\ UNCHANGED exceptConc

\* chunks = self._chunk_text(content); vector_data = []   (lines 113-115)
ConcChunk(c) ==
    /\ callers[c].pc = "call"
    /\ callers' = [callers EXCEPT
          ![c].chunks = chunk_text(callers[c].content, DefaultChunkSize,
                                   DefaultOverlap),
          ![c].vector_data = <<>>,
          ![c].pc = "loop"]
    /\ UNCHANGED <<store, next_uuid>>
    /\ ConcFrame

\* one iteration of the for loop, the embedding call returning
\* (lines 117-140); the provider answers a text with the one vector it has
\* for it, whoever asks
ConcProcessChunk(c) ==
    /\ callers[c].pc = "loop"
    /\ Len(callers[c].vector_data) < Len(callers[c].chunks)
    /\ LET me == callers[c]
           i  == Len(me.vector_data)
           ch == me.chunks[i + 1]
       IN  \E embedding \in {ConcEmbedding(EmbedInput(ch, me.metadata))} :
              callers' = [callers EXCEPT ![c].vector_data =
                  Append(me.vector_data,
                         VectorRecord(next_uuid, embedding,
                                      ChunkMetadata(me.metadata, ch, i,
                                                    Len(me.chunks))))]
    /\ next_uuid' = next_uuid + 1
    /\ UNCHANGED store
    /\ ConcFrame

\* an iteration in which get_single_embedding raises (lines 151-154)
ConcEmbedRaises(c) ==
    /\ callers[c].pc = "loop"
    /\ Len(callers[c].vector_data) < Len(callers[c].chunks)
    /\ callers' = [callers EXCEPT ![c].result = FALSE, ![c].pc = "returned"]
    /\ UNCHANGED <<store, next_uuid>>
    /\ ConcFrame

\* if not vector_data: return True   (lines 142-144)
ConcNothingToUpsert(c) ==
    /\ callers[c].pc = "loop"
    /\ Len(callers[c].vector_data) = Len(callers[c].chunks)
    /\ NothingToUpsert(callers[c].vector_data)
    /\ callers' = [callers EXCEPT ![c].result = TRUE, ![c].pc = "returned"]
    /\ UNCHANGED <<store, next_uuid>>
    /\ ConcFrame

\* result = self.vector_store.upsert_vectors(vector_data); return result
\* (lines 146-149), the index accepting the batch
ConcUpsert(c) ==
    /\ callers[c].pc = "loop"
    /\ Len(callers[c].vector_data) = Len(callers[c].chunks)
    /\ ~NothingToUpsert(callers[c].vector_data)
    /\ store' = Upserted(store, callers[c].vector_data)
    /\ callers' = [callers EXCEPT
          ![c].upserts = Append(@, UpsertCall(callers[c].vector_data, TRUE)),
          ![c].result = ReturnOfUpsert(TRUE),
          ![c].pc = "returned"]
    /\ UNCHANGED next_uuid
    /\ ConcFrame

\* the same, index.upsert raising   (pinecone_service.py lines 80-83)
ConcUpsertFails(c) ==
    /\ callers[c].pc = "loop"
    /\ Len(callers[c].vector_data) = Len(callers[c].chunks)
    /\ ~NothingToUpsert(callers[c].vector_data)
    /\ callers' = [callers EXCEPT
          ![c].upserts = Append(@, UpsertCall(callers[c].vector_data, FALSE)),
          ![c].result = ReturnOfUpsert(FALSE),
          ![c].pc = "returned"]
    /\ UNCHANGED <<store, next_uuid>>
    /\ ConcFrame

ConcNext ==
    \E c \in Callers :
        \/ ConcChunk(c)
        \/ ConcProcessChunk(c)
        \/ ConcEmbedRaises(c)
        \/ ConcNothingToUpsert(c)
        \/ ConcUpsert(c)
        \/ ConcUpsertFails(c)

SpecConcurrent == ConcInit /\ [][ConcNext]_vars

----------------------------------------------------------------------------
(* LLMService.generate_response_with_context   (llm_service.py lines 65-107) *)

\* the length of the longest context of the model
MaxContextLen == 2

\* the characters of the contexts: two of whitespace and one that is not
Whitespace == {" ", NL}
ContextAlphabet == Whitespace \cup {"a"}

\* str.strip(): the string without its leading and trailing whitespace
RECURSIVE Strip(_)
Strip(s) ==
    IF s = <<>> THEN s
    ELSE IF Head(s) \in Whitespace THEN Strip(Tail(s))
    ELSE IF s[Len(s)] \in Whitespace THEN Strip(SubSeq(s, 1, Len(s) - 1))
    ELSE s

\* the replacement of line 84
NoContextSentence == <<"No relevant medical history found in the database.">>

\* if not context or context.strip() == "":   (line 83), context a string
ReplacesContext(c) == ~Truthy(c.s) \/ Strip(c.s) = <<>>

\* user_message of lines 89-93
UserMessage(c, q) == <<"Context:", NL>> \o c \o <<NL, NL, "Question:", NL>> \o q

LlmInit ==
    /\ ChunkIdle
    /\ CombineIdle
    /\ QueryIdle
    /\ IngestIdle
    /\ UpdateIdle
    /\ WebhookIdle
    /\ HeapIdle
    /\ ConcIdle
    /\ llm_context \in {NoneValue} \cup
          { Str(s) : s \in UNION { [1..n -> ContextAlphabet] : n \in 0..MaxContextLen } }
    /\ llm_query \in {<<"q">>, <<>>}
    /\ user_message = <<>>
    /\ llm_result = <<>>
    /\ llm_error = ""
    /\ lpc = "call"

\* the log lines of lines 78-80: len(context) and context[:200] are
\* evaluated, which raises TypeError when context is None
LlmLog ==
    /\ lpc = "call"
    /\ IF llm_context.kind = "none"
       THEN llm_error' = "TypeError" /\ lpc' = "raised"
       ELSE UNCHANGED llm_error /\ lpc' = "logged"
    /\ UNCHANGED <<llm_context, llm_query, user_message, llm_result>>
    /\ UNCHANGED exceptLlm

\* lines 82-103: the replacement of a blank context, the messages
LlmBuild ==
    /\ lpc = "logged"
    /\ LET c == IF ReplacesContext(llm_context) THEN NoContextSentence
                ELSE llm_context.s
       IN  user_message' = UserMessage(c, llm_query)
    /\ lpc' = "built"
    /\ UNCHANGED <<llm_context, llm_query, llm_result, llm_error>>
    /\ UNCHANGED exceptLlm

\* return self.generate_response(messages, ...)   (line 107), the provider
\* answering
LlmSend ==
    /\ lpc = "built"
    /\ llm_result' \in LLMAnswers
    /\ lpc' = "returned"
    /\ UNCHANGED <<llm_context, llm_query, user_message, llm_error>>
    /\ UNCHANGED exceptLlm

\* the same, generate_response raising on a status other than 200
\* (lines 55-58)
LlmSendRaises ==
    /\ lpc = "built"
    /\ llm_error' = "Exception"
    /\ lpc' = "raised"
    /\ UNCHANGED <<llm_context, llm_query, user_message, llm_result>>
    /\ UNCHANGED exceptLlm

LlmNext ==
    \/ LlmLog
    \/ LlmBuild
    \/ LlmSend
    \/ LlmSendRaises

SpecLlm == LlmInit /\ [][LlmNext]_vars

----------------------------------------------------------------------------
(* Properties of the chunker *)

\* the span of the k-th chunk: [SpanStart(k), SpanEnd(k))
SpanStart(k) == starts[k]
SpanEnd(k) == starts[k] + Len(chunks[k])

\* the k-th chunk without the part it shares with its predecessor
Fresh(k) ==
    IF k = 1 THEN chunks[1]
    ELSE SubSeq(chunks[k], (SpanEnd(k - 1) - SpanStart(k)) + 1, Len(chunks[k]))

RECURSIVE Reconstruct(_)
Reconstruct(k) == IF k = 0 THEN <<>> ELSE Reconstruct(k - 1) \o Fresh(k)

ChunkLengths == [k \in 1..Len(chunks) |-> Len(chunks[k])]

ValidChunkInput == text # <<>> /\ chunk_size >= 1 /\ overlap >= 0

\* C1: for a non-empty text, chunk_size >= 1 and overlap >= 0 the returned
\* chunks are contiguous slices of the text of length at most chunk_size, the
\* first starts at 0, each later one starts at or before the end of its
\* predecessor, the last ends at len(text), and dropping from each chunk the
\* part shared with its predecessor reconstructs the text.
C1_ChunksCoverText ==
    (cpc = "returned" /\ ValidChunkInput) =>
        /\ Len(chunks) >= 1
        /\ Len(starts) = Len(chunks)
        /\ SpanStart(1) = 0
        /\ \A k \in 1..Len(chunks) :
              /\ Len(chunks[k]) <= chunk_size
              /\ SpanStart(k) >= 0
              /\ SpanEnd(k) <= Len(text)
              /\ chunks[k] = SubSeq(text, SpanStart(k) + 1, SpanEnd(k))
        /\ \A k \in 2..Len(chunks) :
              /\ SpanStart(k) <= SpanEnd(k - 1)
              /\ SpanEnd(k) >= SpanEnd(k - 1)
        /\ SpanEnd(Len(chunks)) = Len(text)
        /\ Reconstruct(Len(chunks)) = text

\* a call with overlapping chunks has returned at least three of them
C1_Witness ==
    /\ cpc = "returned"
    /\ ValidChunkInput
    /\ overlap >= 1
    /\ Len(chunks) >= 3
    /\ \E k \in 2..Len(chunks) : SpanStart(k) < SpanEnd(k - 1)

\* C2: for every text, chunk_size and overlap (overlap >= chunk_size and
\* chunk_size <= 0 included) the loop body runs at most max_iterations times,
\* and a call that reached the cap returns the chunks collected so far.
C2_IterationCap ==
    /\ iterations <= MaxIterations(text, chunk_size, overlap)
    /\ Len(chunks) <= MaxIterations(text, chunk_size, overlap)
    /\ Len(chunks) \in {iterations, iterations + 1}
    /\ (cpc = "returned" /\ warned) =>
          /\ ~broke
          /\ Len(chunks) = MaxIterations(text, chunk_size, overlap)

\* a call with a pathological configuration returned after reaching the cap
C2_Witness ==
    /\ cpc = "returned"
    /\ warned
    /\ chunk_size <= 0
    /\ Len(chunks) = MaxIterations(text, chunk_size, overlap)

IsScenario1 ==
    /\ Len(text) = 2400
    /\ chunk_size = DefaultChunkSize
    /\ overlap = DefaultOverlap

C4_SingleChunk ==
    (cpc = "returned" /\ text # <<>> /\ Len(text) <= chunk_size /\ overlap >= 0)
        => chunks = <<text>>

NonDecreasing(s) == \A k \in 1..(Len(s) - 1) : s[k] <= s[k + 1]
StrictlyIncreasing(s) == \A k \in 1..(Len(s) - 1) : s[k] < s[k + 1]

IsScenarioDegenerate ==
    /\ Len(text) = 50
    /\ chunk_size = 10
    /\ overlap = 15

\* C6: the chunk starts are strictly increasing whenever
\* 0 <= overlap < chunk_size; when overlap >= chunk_size (chunk_size >= 1) each
\* chunk starts at the end of the one before and the loop ends without
\* reaching the cap; for chunk_size=10, overlap=15 and a text of length 50 the
\* loop body runs at most 16 times, the starts are non-decreasing and the
\* chunks cover the text.
C6_StartsAdvance ==
    /\ (0 <= overlap /\ overlap < chunk_size) => StrictlyIncreasing(starts)
    /\ (chunk_size >= 1 /\ overlap >= chunk_size) =>
          /\ \A k \in 2..Len(chunks) : SpanStart(k) = SpanEnd(k - 1)
          /\ cpc = "returned" => ~warned
    /\ (cpc = "returned" /\ IsScenarioDegenerate) =>
          /\ Len(chunks) <= 16
          /\ iterations <= 16
          /\ NonDecreasing(starts)
          /\ SpanStart(1) = 0
          /\ \A k \in 2..Len(chunks) : SpanStart(k) <= SpanEnd(k - 1)
          /\ SpanEnd(Len(chunks)) = Len(text)

\* the degenerate-overlap scenario has returned its five chunks
C6_Witness ==
    /\ cpc = "returned"
    /\ IsScenarioDegenerate
    /\ starts = <<0, 10, 20, 30, 40>>

\* the span of chunk i lies inside the span of another chunk j
ContainedIn(i, j) ==
    /\ i # j
    /\ SpanStart(j) <= SpanStart(i)
    /\ SpanEnd(i) <= SpanEnd(j)

NoChunkInsideAnother ==
    \A i, j \in 1..Len(chunks) : ~ContainedIn(i, j)

\* with 0 < overlap < chunk_size and len(text) > overlap the last chunk is
\* the final overlap characters of the text and lies inside the chunk before
LastChunkIsTail ==
    (cpc = "returned" /\ 0 < overlap /\ overlap < chunk_size
                      /\ Len(text) > overlap) =>
        LET n == Len(chunks)
        IN  /\ n >= 2
            /\ chunks[n] = SubSeq(text, (Len(text) - overlap) + 1, Len(text))
            /\ SpanStart(n) = Len(text) - overlap
            /\ SpanEnd(n) = Len(text)
            /\ ContainedIn(n, n - 1)

\* C25 as stated: whenever 0 < overlap < chunk_size and len(text) > overlap
\* the last chunk is exactly the final overlap characters of the text and is
\* wholly contained in the chunk before it; whenever overlap = 0 or
\* overlap >= chunk_size no chunk is wholly contained in another.
C25_AsStated ==
    /\ LastChunkIsTail
    /\ (cpc = "returned" /\ (overlap = 0 \/ overlap >= chunk_size)) =>
          NoChunkInsideAnother

\* C25: whenever 0 < overlap < chunk_size and len(text) > overlap the last
\* chunk is exactly the final overlap characters of the text and is wholly
\* contained in the chunk before it; whenever chunk_size >= 1 and overlap = 0
\* or overlap >= chunk_size, no chunk is wholly contained in another.
C25_TailAndNoContainment ==
    /\ LastChunkIsTail
    /\ (cpc = "returned" /\ chunk_size >= 1
                         /\ (overlap = 0 \/ overlap >= chunk_size)) =>
          NoChunkInsideAnother

\* the 2400-character text returned a fourth chunk of its last 100
\* characters, which the third chunk (1800..2400) contains
C25_Witness ==
    /\ cpc = "returned"
    /\ IsScenario1
    /\ Len(chunks) = 4
    /\ SpanStart(4) = 2300
    /\ Len(chunks[4]) = overlap
    /\ ContainedIn(4, 3)

\* a call without overlap, and one with overlap above chunk_size, returned
\* several chunks none of which lies inside another
C25_Disjoint ==
    /\ cpc = "returned"
    /\ chunk_size >= 1
    /\ overlap > chunk_size
    /\ Len(chunks) >= 3
    /\ NoChunkInsideAnother

\* chunk_size = 0 returned empty chunks, each at the span of the others
C25_EmptyChunks ==
    /\ cpc = "returned"
    /\ chunk_size = 0
    /\ overlap = 0
    /\ Len(chunks) >= 2
    /\ \A k \in 1..Len(chunks) : chunks[k] = <<>>

\* C26: for every non-empty text, chunk_size >= 1 and overlap >= 0 the loop
\* is left because the cursor reached the end of the text or by the
\* no-progress break, with the iteration count below the cap, so the
\* diagnostic is emitted only when chunk_size <= 0 or overlap < 0.
C26_CapOnlyOutsideContract ==
    /\ ValidChunkInput =>
          iterations < MaxIterations(text, chunk_size, overlap)
    /\ (cpc = "returned" /\ ValidChunkInput) =>
          /\ ~warned
          /\ broke \/ start >= Len(text)
    /\ (cpc = "returned" /\ warned) => (chunk_size <= 0 \/ overlap < 0)

\* a call inside the contract with overlap above chunk_size left the loop
\* by the break after five iterations and without the diagnostic
C26_Witness ==
    /\ cpc = "returned"
    /\ IsScenarioDegenerate
    /\ broke
    /\ iterations = 4
    /\ ~warned

\* a call that ended with the cursor at the end of the text
C26_CursorAtEnd ==
    /\ cpc = "returned"
    /\ ValidChunkInput
    /\ ~broke
    /\ start = Len(text)
    /\ ~warned

----------------------------------------------------------------------------
(* Properties of the metadata compositor *)

\* the seven recognised fields in rendering order: label, keys in synonym order
Fields == <<
    [label |-> "Patient Name: ", keys |-> <<"patient_name", "patient">>],
    [label |-> "Patient ID: ",   keys |-> <<"patient_id", "id">>],
    [label |-> "Age: ",          keys |-> <<"age">>],
    [label |-> "Gender: ",       keys |-> <<"gender">>],
    [label |-> "Date/Time: ",    keys |-> <<"date_time", "visit_date", "date">>],
    [label |-> "Doctor: ",       keys |-> <<"doctor">>],
    [label |-> "Source: ",       keys |-> <<"source">>] >>

\* the value of the first key of keys under which m holds a non-empty value
FirstNonEmptyValue(m, keys) ==
    LET hits == { i \in 1..Len(keys) : keys[i] \in DOMAIN m /\ m[keys[i]] # <<>> }
    IN  IF hits = {} THEN <<>>
        ELSE m[keys[CHOOSE i \in hits : \A j \in hits : i <= j]]

\* the value of the first key of keys that m holds, empty or not
FirstPresentValue(m, keys) ==
    LET hits == { i \in 1..Len(keys) : keys[i] \in DOMAIN m }
    IN  IF hits = {} THEN <<>>
        ELSE m[keys[CHOOSE i \in hits : \A j \in hits : i <= j]]

\* the lines "<Label>: <value>" of the fields with a non-empty value under
\* Value, in field order, each ended by a newline
RECURSIVE FieldLines(_, _, _)
FieldLines(m, Value(_, _), n) ==
    IF n = 0 THEN <<>>
    ELSE FieldLines(m, Value, n - 1) \o
         (IF Value(m, Fields[n].keys) # <<>>
          THEN <<Fields[n].label>> \o Value(m, Fields[n].keys) \o <<NL>>
          ELSE <<>>)

\* C7 as stated: the result is one line per field that is present and
\* non-empty under any of its recognised keys, with the value of the first
\* such key in synonym order, in the order Name, ID, Age, Gender, Date/Time,
\* Doctor, Source, followed always by the 'Medical Notes: <chunk>' line.
C7_AsStated ==
    kpc = "returned" =>
        combined = FieldLines(metadata, FirstNonEmptyValue, Len(Fields))
                   \o <<"Medical Notes: ">> \o chunk

\* C7 as amended: the result is one line per field whose first PRESENT key in
\* synonym order holds a non-empty value, with that value (a key present with
\* an empty value hides its later synonyms, and the field gets no line), in
\* the order Name, ID, Age, Gender, Date/Time, Doctor, Source, no line for any
\* other field, followed always by the 'Medical Notes: <chunk>' line.
C7_FirstPresentKeyWins ==
    kpc = "returned" =>
        combined = FieldLines(metadata, FirstPresentValue, Len(Fields))
                   \o <<"Medical Notes: ">> \o chunk

\* a call returned for a metadata mapping that has both a synonym pair and an
\* empty field
C7_Witness ==
    /\ kpc = "returned"
    /\ {"patient_name", "patient"} \subseteq DOMAIN metadata
    /\ metadata["patient_name"] # <<>>
    /\ metadata["patient"] # metadata["patient_name"]
    /\ \E k \in DOMAIN metadata : metadata[k] = <<>>
    /\ Len(combined) > Len(chunk) + 1

----------------------------------------------------------------------------
(* Properties of query *)

\* the match has content: its metadata is a mapping with a 'content' key
Usable(doc) ==
    /\ doc.kind = "dict"
    /\ "content" \in DOMAIN doc.map

\* the positions of the usable matches, in rank order
RECURSIVE UsableRanks(_)
UsableRanks(n) ==
    IF n = 0 THEN <<>>
    ELSE IF Usable(similar_docs[n]) THEN Append(UsableRanks(n - 1), n)
    ELSE UsableRanks(n - 1)

Ranks == UsableRanks(Len(similar_docs))

\* s ends with t
EndsWith(s, t) ==
    /\ Len(t) <= Len(s)
    /\ SubSeq(s, Len(s) - Len(t) + 1, Len(s)) = t

\* the query went through the assembly of the context
Assembled == qpc = "assembled" \/ (qpc = "returned" /\ calls[Len(calls)].op # "embed")

\* a provider call of this query raised
SomeCallRaised == \E i \in 1..Len(calls) : calls[i].op # "query_similar" /\ ~calls[i].ok

\* C8: a match whose metadata has no 'content' key, or is not a mapping,
\* contributes no segment to the context and does not make the query fail,
\* and every match that has content is still included.
C8_SkipsMatchesWithoutContent ==
    Assembled =>
        /\ Len(context_parts) = Len(Ranks)
        /\ \A j \in 1..Len(Ranks) :
              EndsWith(context_parts[j], similar_docs[Ranks[j]].map["content"])
        /\ (qpc = "returned" /\ response = ErrorPhrase) => SomeCallRaised

\* a query answered from a list that mixes a match with content, a mapping
\* without content and a metadata that is no mapping
C8_Witness ==
    /\ qpc = "returned"
    /\ response = <<"answer">>
    /\ \E i, j, k \in 1..Len(similar_docs) :
          /\ Usable(similar_docs[i])
          /\ similar_docs[j].kind = "other"
          /\ similar_docs[k].kind = "dict" /\ ~Usable(similar_docs[k])
    /\ Len(context_parts) = 1

\* the offset of the j-th segment in the context when segments are separated
\* by two newlines
RECURSIVE SegmentOffset(_)
SegmentOffset(j) ==
    IF j = 1 THEN 0
    ELSE SegmentOffset(j - 1) + Len(context_parts[j - 1]) + 2

\* C9: the context holds exactly one segment per match that has content, in
\* the order of the matches, consecutive segments separated by exactly one
\* blank line (two newlines); 3 matches of which 2 have content give exactly
\* 2 segments in rank order.
C9_SegmentsInRankOrder ==
    Assembled =>
        LET n == Len(context_parts)
        IN  /\ n = Len(Ranks)
            /\ \A j \in 1..n :
                  /\ EndsWith(context_parts[j], similar_docs[Ranks[j]].map["content"])
                  /\ SubSeq(context, SegmentOffset(j) + 1,
                            SegmentOffset(j) + Len(context_parts[j])) = context_parts[j]
                  /\ j < n =>
                        /\ context[SegmentOffset(j) + Len(context_parts[j]) + 1] = NL
                        /\ context[SegmentOffset(j) + Len(context_parts[j]) + 2] = NL
            /\ Len(context) = IF n = 0 THEN 0
                              ELSE SegmentOffset(n) + Len(context_parts[n])
            /\ (Len(similar_docs) = 3 /\ Len(Ranks) = 2) => n = 2

\* three matches of which the first and the third have content were assembled
C9_Witness ==
    /\ Assembled
    /\ Len(similar_docs) = 3
    /\ Ranks = <<1, 3>>
    /\ similar_docs[1].map["content"] = <<"b">>
    /\ similar_docs[3].map["content"] = <<"a">>
    /\ context_parts[2] = <<"a">>
    /\ Len(context_parts[1]) > 1

\* the generation calls of this query
GenerateCalls == { i \in 1..Len(calls) : calls[i].op = "generate" }
Retrieved == \E i \in 1..Len(calls) : calls[i].op = "query_similar"

\* C10: when the vector store returned no matches, or no returned match has
\* content, query returns exactly the fixed not-found phrase and does not call
\* the generation provider; the generation provider is never called with an
\* empty context.
C10_NotFoundWithoutGeneration ==
    /\ (qpc = "returned" /\ Retrieved /\ Ranks = <<>>) =>
          /\ response = NotFoundPhrase
          /\ GenerateCalls = {}
    /\ \A i \in GenerateCalls : calls[i].arg[1] # <<>>

\* a query returned the not-found phrase for matches none of which has content
C10_Witness ==
    /\ qpc = "returned"
    /\ Len(similar_docs) >= 2
    /\ Ranks = <<>>
    /\ response = NotFoundPhrase

----------------------------------------------------------------------------
(* Properties of add_document *)

\* C5: _chunk_text of the empty text returns the empty sequence, and
\* add_document with empty content returns True without any call to the
\* embedding provider or to the vector store.
C5_EmptyDocumentIsNoOp ==
    (doc_content = <<>> /\ apc \in {"loop", "returned"}) =>
        /\ doc_chunks = <<>>
        /\ embed_calls = <<>>
        /\ upsert_calls = <<>>
        /\ store = EmptyDict
        /\ apc = "returned" => result = TRUE

\* add_document returned for an empty document with a non-empty metadata
C5_Witness ==
    /\ apc = "returned"
    /\ doc_content = <<>>
    /\ doc_metadata # EmptyDict
    /\ result = TRUE

\* ---------------------------------------------------------------------
\* add_document: embedding calls, records, upsert
\* ---------------------------------------------------------------------

\* the embeddable text of chunk c under metadata m: the field lines, then
\* the 'Medical Notes: ' line holding the chunk
ExpectedEmbedText(c, m) ==
    FieldLines(m, FirstPresentValue, Len(Fields)) \o <<"Medical Notes: ">> \o c

\* the ids of a sequence of records are pairwise distinct
DistinctIds(vd) ==
    \A i, j \in 1..Len(vd) : i # j => vd[i].id # vd[j].id

\* C11: add_document calls the embedding provider once per chunk, in chunk
\* order, each time with the composed embeddable text of the chunk and never
\* with the raw chunk; record i holds chunk i as content, chunk_index i
\* (0-based), total_chunks n, the embedding returned for chunk i and an id
\* that no other record has; the batch handed to the store is these n
\* records.
C11_OneRecordPerChunk ==
    (apc \in {"loop", "returned"} /\ doc_chunks # <<>>) =>
        LET n     == Len(doc_chunks)
            built == Len(vector_data)
        IN  /\ built <= n
            /\ Len(embed_calls) \in {built, built + 1}
            /\ Len(embed_calls) = built + 1 =>
                   /\ built < n
                   /\ embed_calls[built + 1].ret = "raised"
            /\ \A i \in 1..Len(embed_calls) :
                   /\ embed_calls[i].text =
                          ExpectedEmbedText(doc_chunks[i], doc_metadata)
                   /\ embed_calls[i].text # doc_chunks[i]
            /\ \A i \in 1..built :
                   /\ vector_data[i].metadata["content"] = doc_chunks[i]
                   /\ vector_data[i].metadata["chunk_index"] = IntValue(i - 1)
                   /\ vector_data[i].metadata["total_chunks"] = IntValue(n)
                   /\ vector_data[i].values = embed_calls[i].ret
            /\ DistinctIds(vector_data)
            /\ \A u \in 1..Len(upsert_calls) :
                   /\ built = n
                   /\ Len(embed_calls) = n
                   /\ upsert_calls[u].vectors = vector_data

\* a four-chunk document with metadata was stored, its chunks embedded to
\* different vectors
C11_Witness ==
    /\ apc = "returned"
    /\ result = TRUE
    /\ Len(doc_chunks) = 4
    /\ doc_metadata # EmptyDict
    /\ Len(upsert_calls) = 1
    /\ embed_calls[1].ret # embed_calls[2].ret

\* the keys add_document sets itself in the metadata of a record
ReservedKeys == {"content", "chunk_index", "total_chunks"}

\* the records add_document has handed to the vector store
HandedRecords ==
    { upsert_calls[u].vectors[i] :
        u \in 1..Len(upsert_calls), i \in 1..Len(vector_data) }

\* C12 as stated: the metadata of each record handed to the vector store
\* contains every caller-supplied key with its caller-supplied value, in
\* addition to content, chunk_index and total_chunks.
C12_AsStated ==
    \A r \in HandedRecords :
        /\ ReservedKeys \subseteq DOMAIN r.metadata
        /\ \A k \in DOMAIN doc_metadata :
               /\ k \in DOMAIN r.metadata
               /\ r.metadata[k] = doc_metadata[k]

\* C12: the metadata of each record handed to the vector store holds the
\* chunk under content, its index under chunk_index and the number of
\* chunks under total_chunks, whatever the caller supplied under these
\* three keys, and every other caller-supplied key with its caller-supplied
\* value, and no further key.
C12_CallerKeysExceptReserved ==
    \A u \in 1..Len(upsert_calls) : \A i \in 1..Len(upsert_calls[u].vectors) :
        LET r == upsert_calls[u].vectors[i]
        IN  /\ DOMAIN r.metadata = DOMAIN doc_metadata \cup ReservedKeys
            /\ r.metadata["content"] = doc_chunks[i]
            /\ r.metadata["chunk_index"] = IntValue(i - 1)
            /\ r.metadata["total_chunks"] = IntValue(Len(doc_chunks))
            /\ \A k \in DOMAIN doc_metadata \ ReservedKeys :
                   r.metadata[k] = doc_metadata[k]

\* records were handed to the store for a caller's metadata that holds a
\* key of its own and the key content
C12_Witness ==
    /\ upsert_calls # <<>>
    /\ "content" \in DOMAIN doc_metadata
    /\ "patient" \in DOMAIN doc_metadata
    /\ doc_metadata["content"] # doc_chunks[1]

\* C13: one add_document makes no upsert call or exactly one, carrying the
\* records of all chunks; when the embedding of a chunk fails no upsert is
\* made, the store is untouched and the result is False; when the upsert
\* fails the result is False; the result is True only for an empty
\* document or when that one upsert succeeded.
C13_AllOrNothing ==
    LET embedFailed  == \E i \in 1..Len(embed_calls) : embed_calls[i].ret = "raised"
        upsertFailed == \E u \in 1..Len(upsert_calls) : ~upsert_calls[u].ok
    IN  /\ Len(upsert_calls) <= 1
        /\ \A u \in 1..Len(upsert_calls) :
               /\ Len(upsert_calls[u].vectors) = Len(doc_chunks)
               /\ \A i \in 1..Len(doc_chunks) :
                      upsert_calls[u].vectors[i].metadata["content"] = doc_chunks[i]
        /\ upsert_calls = <<>> => store = EmptyDict
        /\ embedFailed =>
               /\ upsert_calls = <<>>
               /\ apc = "returned"
               /\ result = FALSE
        /\ upsertFailed => (apc = "returned" /\ result = FALSE)
        /\ (apc = "returned" /\ result = TRUE) =>
               \/ doc_content = <<>>
               \/ (Len(upsert_calls) = 1 /\ upsert_calls[1].ok)

\* the embedding of the third chunk failed after two chunks were embedded
C13_Witness ==
    /\ apc = "returned"
    /\ result = FALSE
    /\ Len(embed_calls) = 3
    /\ embed_calls[3].ret = "raised"
    /\ Len(vector_data) = 2
    /\ upsert_calls = <<>>

\* the upsert of a batch failed
C13_UpsertFailed ==
    /\ apc = "returned"
    /\ upsert_calls # <<>>
    /\ ~upsert_calls[1].ok

\* ---------------------------------------------------------------------
\* failures of the providers, update_document
\* ---------------------------------------------------------------------

\* a value is a string
IsString(v) == DOMAIN v = 1..Len(v)

\* C14: whatever provider calls fail, no exception leaves add_document,
\* query or update_document: each of them runs on to its return, where
\* add_document and update_document give a boolean and query gives a
\* string.
C14_NoExceptionPropagates ==
    /\ apc # "raised"
    /\ qpc # "raised"
    /\ upc # "raised"
    /\ apc = "returned" => result \in BOOLEAN
    /\ upc = "returned" => upd_result \in BOOLEAN
    /\ qpc = "returned" => IsString(response)
    /\ ~ENABLED ServiceNext =>
          /\ apc \in {"idle", "returned"}
          /\ qpc \in {"idle", "returned"}
          /\ upc \in {"idle", "returned"}
    /\ (qpc = "idle" /\ upc # "returned") => ENABLED ServiceNext

\* update_document returned after its delete failed and an embedding call
\* of its ingest raised
C14_Witness ==
    /\ upc = "returned"
    /\ upd_result = FALSE
    /\ ~delete_calls[1].ok
    /\ embed_calls # <<>>
    /\ embed_calls[Len(embed_calls)].ret = "raised"

\* query returned after its generation call raised
C14_QueryFailed ==
    /\ qpc = "returned"
    /\ \E i \in 1..Len(calls) : calls[i].op = "generate" /\ ~calls[i].ok

\* the records that the running add_document has built are in the index
NewRecordsStored ==
    \A i \in 1..Len(vector_data) :
        /\ vector_data[i].id \in DOMAIN store
        /\ store[vector_data[i].id].metadata = vector_data[i].metadata

\* C15: update_document issues the delete of doc_id, one call for that id
\* alone, before anything of the ingest of the new content happens; when
\* the delete succeeded and the ingest failed it returns False and the
\* index is what it was before the call less the record doc_id: it holds
\* neither that record nor any record of the new content.
C15_DeleteThenIngest ==
    /\ upc = "call" => (delete_calls = <<>> /\ store = store_before)
    /\ upc \in {"deleted", "ingest", "returned"} =>
          /\ Len(delete_calls) = 1
          /\ delete_calls[1].ids = <<upd_doc_id>>
    /\ upc = "deleted" =>
          /\ apc = "returned"
          /\ \A k \in DOMAIN store : k \in DOMAIN store_before
    /\ (upc = "ingest" /\ (embed_calls # <<>> \/ upsert_calls # <<>>)) =>
          doc_content = upd_content
    /\ (upc = "returned" /\ delete_calls[1].ok /\ result = FALSE) =>
          /\ upd_result = FALSE
          /\ upd_doc_id \notin DOMAIN store
          /\ DOMAIN store = DOMAIN store_before \ {upd_doc_id}
          /\ \A k \in DOMAIN store : store[k] = store_before[k]
          /\ \A i \in 1..Len(vector_data) : vector_data[i].id \notin DOMAIN store

\* the delete removed a stored record and the ingest of a two-chunk version
\* failed at its upsert
C15_Witness ==
    /\ upc = "returned"
    /\ upd_result = FALSE
    /\ delete_calls[1].ok
    /\ upd_doc_id \in DOMAIN store_before
    /\ Len(vector_data) = 2
    /\ upsert_calls # <<>>

\* C16: after update_document returned True for the id of a record of a
\* document stored by add_document, the index holds the records of the new
\* version and no record of the version being replaced, whatever the number
\* of chunks of the earlier ingest.
C16_ReplacesOldVersion ==
    (upc = "returned" /\ upd_result = TRUE /\ upd_doc_id \in DOMAIN store_before) =>
        /\ NewRecordsStored
        /\ \A k \in DOMAIN store_before : k \notin DOMAIN store

\* the same for a first version of one chunk whose delete succeeded
C16_SingleChunkDeleted ==
    (upc = "returned" /\ upd_result = TRUE /\ upd_doc_id \in DOMAIN store_before
        /\ Cardinality(DOMAIN store_before) = 1 /\ delete_calls[1].ok) =>
        /\ NewRecordsStored
        /\ \A k \in DOMAIN store_before : k \notin DOMAIN store

\* update_document returned True for a first version of two records
C16_TwoChunkUpdate ==
    /\ upc = "returned"
    /\ upd_result = TRUE
    /\ delete_calls[1].ok
    /\ upd_doc_id \in DOMAIN store_before
    /\ Cardinality(DOMAIN store_before) = 2

\* ---------------------------------------------------------------------
\* concurrent calls of add_document
\* ---------------------------------------------------------------------

\* the caller's add_document returned True after an upsert
Succeeded(c) ==
    /\ callers[c].pc = "returned"
    /\ callers[c].result = TRUE
    /\ callers[c].upserts # <<>>

\* C17: in every interleaving of concurrent add_document calls on one
\* index, a call makes at most one upsert, whose batch is the records of
\* its own chunks, with chunk_index 0..n-1 and its own metadata; the ids of
\* the records are pairwise distinct within and across calls; and the index
\* holds, unaltered, every record of every call whose upsert succeeded, and
\* nothing else.
C17_ConcurrentIngestsIndependent ==
    /\ \A c \in Callers :
          LET me == callers[c]
          IN  /\ Len(me.upserts) <= 1
              /\ \A u \in 1..Len(me.upserts) :
                     /\ me.upserts[u].vectors = me.vector_data
                     /\ Len(me.vector_data) = Len(me.chunks)
              /\ \A i \in 1..Len(me.vector_data) :
                     /\ me.vector_data[i].metadata["chunk_index"] = IntValue(i - 1)
                     /\ me.vector_data[i].metadata["content"] = me.chunks[i]
                     /\ me.vector_data[i].metadata["source"] = me.metadata["source"]
              /\ DistinctIds(me.vector_data)
              /\ Succeeded(c) =>
                     \A i \in 1..Len(me.vector_data) :
                        /\ me.vector_data[i].id \in DOMAIN store
                        /\ store[me.vector_data[i].id] =
                               [values   |-> me.vector_data[i].values,
                                metadata |-> me.vector_data[i].metadata]
    /\ \A c, d \in Callers : c # d =>
          \A i \in 1..Len(callers[c].vector_data) :
             \A j \in 1..Len(callers[d].vector_data) :
                callers[c].vector_data[i].id # callers[d].vector_data[j].id
    /\ \A k \in DOMAIN store :
          \E c \in Callers : \E i \in 1..Len(callers[c].vector_data) :
             /\ callers[c].upserts # <<>>
             /\ callers[c].upserts[1].ok
             /\ callers[c].vector_data[i].id = k

\* two callers with two-chunk documents both succeeded, their embedding
\* calls interleaved: a record of the second caller was built between the
\* two records of the first
C17_Witness ==
    /\ Succeeded(1)
    /\ Succeeded(2)
    /\ Len(callers[1].vector_data) = 2
    /\ Len(callers[2].vector_data) = 2
    /\ callers[1].vector_data[1].id < callers[2].vector_data[1].id
    /\ callers[2].vector_data[1].id < callers[1].vector_data[2].id

\* ---------------------------------------------------------------------
\* query: the order of the provider calls, the attribution of a segment
\* ---------------------------------------------------------------------

\* the provider calls of a query that ran through, in order
QuerySteps == <<"embed", "query_similar", "generate">>

\* C18: the provider calls of a query are, in this order, the embedding of
\* the query text, the retrieval of top_k matches and, only when the
\* assembled context is non-empty, exactly one generation call, which
\* receives the assembled context and the query text; what the generation
\* provider returns is returned unchanged; and after a call that failed no
\* further provider call is made.
C18_ProviderCallOrder ==
    /\ Len(calls) <= Len(QuerySteps)
    /\ \A i \in 1..Len(calls) :
          /\ calls[i].op = QuerySteps[i]
          /\ ~calls[i].ok => Len(calls) = i
    /\ Len(calls) >= 1 => calls[1].arg = query_text
    /\ Len(calls) >= 2 =>
          /\ calls[2].arg = top_k
          /\ Len(similar_docs) <= top_k
    /\ Len(calls) = 3 =>
          /\ context # <<>>
          /\ context = Join(context_parts, <<NL, NL>>)
          /\ calls[3].arg = <<context, query_text>>
          /\ qpc = "returned"
          /\ calls[3].ok => response = calls[3].ret
    /\ qpc \in {"embedded", "retrieved", "assembled"} =>
          /\ Len(calls) = (IF qpc = "embedded" THEN 1 ELSE 2)
          /\ calls[1].ok
    /\ qpc = "returned" =>
          /\ calls # <<>>
          /\ (calls[1].ok /\ context # <<>>) => Len(calls) = 3
          /\ context = <<>> => Len(calls) < 3

\* a query ran through its three provider calls and returned the empty
\* answer of the generation provider
C18_Witness ==
    /\ qpc = "returned"
    /\ Len(calls) = 3
    /\ calls[3].ok
    /\ calls[3].ret = <<>>
    /\ response = <<>>
    /\ Len(similar_docs) = top_k

\* a query whose retrieval failed returned
C18_RetrievalFailed ==
    /\ qpc = "returned"
    /\ Len(calls) = 2
    /\ ~calls[2].ok

\* the fields of the attribution, in the order of the bracket
AttributionFields == <<
    [label |-> "Patient: ",    key |-> "patient_name"],
    [label |-> "Patient ID: ", key |-> "patient_id"],
    [label |-> "Date: ",       key |-> "date_time"],
    [label |-> "Doctor: ",     key |-> "doctor"] >>

\* the n-th field is present and non-empty in the mapping
Attributed(m, n) ==
    /\ AttributionFields[n].key \in DOMAIN m
    /\ m[AttributionFields[n].key] # <<>>

\* the inside of the bracket for the first n fields: the present fields as
\* '<Label>: <value>', each but the first preceded by ', '
RECURSIVE BracketItems(_, _)
BracketItems(m, n) ==
    IF n = 0 THEN <<>>
    ELSE LET before == BracketItems(m, n - 1)
         IN  IF Attributed(m, n)
             THEN before \o (IF before # <<>> THEN <<", ">> ELSE <<>>)
                         \o <<AttributionFields[n].label>>
                         \o m[AttributionFields[n].key]
             ELSE before

\* the segment of a match with content
ExpectedSegment(m) ==
    IF \E n \in 1..Len(AttributionFields) : Attributed(m, n)
    THEN <<"[">> \o BracketItems(m, Len(AttributionFields)) \o <<"] ">>
                \o m["content"]
    ELSE m["content"]

\* C19: the segment of a match included in the context is its content,
\* preceded by '[...] ' exactly when one of patient name, patient id, date
\* and doctor is present and non-empty in its metadata; the bracket lists
\* exactly the present fields, in that order, separated by ', '.
C19_AttributionBracket ==
    Assembled =>
        /\ Len(context_parts) = Len(Ranks)
        /\ \A j \in 1..Len(Ranks) :
              context_parts[j] = ExpectedSegment(similar_docs[Ranks[j]].map)

\* a match with an empty patient name, a patient id, no date and a doctor
\* was assembled
C19_Witness ==
    /\ Assembled
    /\ Len(similar_docs) = 1
    /\ Usable(similar_docs[1])
    /\ DOMAIN similar_docs[1].map = {"content", "patient_name", "patient_id", "doctor"}
    /\ similar_docs[1].map["patient_name"] = <<>>
    /\ context_parts = << <<"[", "Patient ID: ", "<", "patient_id", ">", ", ",
                            "Doctor: ", "<", "doctor", ">", "] ",
                            "<", "content", ">">> >>

\* a match with content and none of the four fields was assembled
C19_NoBracket ==
    /\ Assembled
    /\ Len(similar_docs) = 1
    /\ Usable(similar_docs[1])
    /\ similar_docs[1].map["content"] # <<>>
    /\ context_parts = <<similar_docs[1].map["content"]>>

\* ---------------------------------------------------------------------
\* generate_response_with_context
\* ---------------------------------------------------------------------

\* a string of whitespace only, the empty string included
IsBlank(s) == \A i \in 1..Len(s) : s[i] \in {" ", NL}

\* the context between 'Context:' and 'Question:' of a user message
CarriedContext(msg) ==
    LET q == CHOOSE i \in 1..Len(msg) :
                /\ msg[i] = "Question:"
                /\ \A j \in 1..Len(msg) : msg[j] = "Question:" => i <= j
    IN  SubSeq(msg, 3, q - 3)

\* the call is past the building of its request
RequestBuilt == lpc \in {"built", "returned"} \/ (lpc = "raised" /\ llm_error = "Exception")

\* the user message carries the context of a string context: the fixed
\* sentence for a blank one, the context itself for any other
StringContextRule ==
    (RequestBuilt /\ llm_context.kind = "str") =>
        /\ ~IsBlank(CarriedContext(user_message))
        /\ CarriedContext(user_message) =
              (IF IsBlank(llm_context.s)
               THEN <<"No relevant medical history found in the database.">>
               ELSE llm_context.s)
        /\ user_message = <<"Context:", NL>> \o CarriedContext(user_message)
                              \o <<NL, NL, "Question:", NL>> \o llm_query

\* C20: for every context that is None, empty or only whitespace the
\* request is built with the fixed sentence in place of the context, and
\* for every other context with the context unchanged: the call gets to
\* the building of its request, and the user message never carries a blank
\* context.
C20_BlankContextReplaced ==
    /\ StringContextRule
    /\ (lpc # "call" /\ llm_context.kind = "none") =>
          /\ RequestBuilt
          /\ CarriedContext(user_message) =
                <<"No relevant medical history found in the database.">>

\* a call with a whitespace-only context sent the fixed sentence
C20_WhitespaceReplaced ==
    /\ lpc = "returned"
    /\ llm_context = Str(<<" ", NL>>)
    /\ CarriedContext(user_message) = NoContextSentence

\* a call with the context None ended in a TypeError before any request
C20_NoneRaises ==
    /\ lpc = "raised"
    /\ llm_context = NoneValue
    /\ llm_error = "TypeError"
    /\ user_message = <<>>

\* ---------------------------------------------------------------------
\* the webhook processor
\* ---------------------------------------------------------------------

\* the lines 'key: value' of the items from the n-th on that are not id,
\* created_at or updated_at, each preceded by a newline
RECURSIVE RecordLines(_, _)
RecordLines(items, n) ==
    IF n > Len(items) THEN <<>>
    ELSE (IF items[n].k \in {"id", "created_at", "updated_at"} THEN <<>>
          ELSE <<NL, items[n].k, ": ">> \o items[n].v)
         \o RecordLines(items, n + 1)

\* the document of a record of a table
ExpectedDocument(table_name, record_data) ==
    <<"Table: ">> \o table_name \o RecordLines(record_data.items, 1)

\* the payload is a mapping whose event is INSERT or UPDATE with a record
\* that is a mapping
IsIngestEvent(data) ==
    /\ data.kind = "dict"
    /\ "event" \in DOMAIN data.map
    /\ data.map["event"] \in {"INSERT", "UPDATE"}
    /\ ("data" \in DOMAIN data.map => data.map["data"].kind = "dict")

\* the payload is a mapping whose event is DELETE
IsDeleteEvent(data) ==
    /\ data.kind = "dict"
    /\ "event" \in DOMAIN data.map
    /\ data.map["event"] = "DELETE"

\* C21: no exception leaves process_webhook; for INSERT and UPDATE it
\* makes one call of add_document, with the formatted record, and returns
\* what that call returned; for an event type other than INSERT, UPDATE
\* and DELETE, the missing one included, it returns False without a call
\* of the RAG service; and an exception raised while handling (a payload or
\* a record that is no mapping) gives False.
C21_WebhookResult ==
    /\ wpc # "raised"
    /\ wpc = "returned" =>
          /\ wh_result \in BOOLEAN
          /\ IF IsIngestEvent(wh_data)
             THEN /\ Len(wh_rag_calls) = 1
                  /\ apc = "returned"
                  /\ wh_rag_calls[1].content =
                        ExpectedDocument(
                            IF "table" \in DOMAIN wh_data.map
                            THEN wh_data.map["table"] ELSE <<>>,
                            IF "data" \in DOMAIN wh_data.map
                            THEN wh_data.map["data"] ELSE RecordData("dict", <<>>))
                  /\ wh_rag_calls[1].metadata["operation"] = <<wh_data.map["event"]>>
                  /\ wh_rag_calls[1].result = result
                  /\ wh_result = result
             ELSE /\ wh_rag_calls = <<>>
                  /\ apc = "idle"
                  /\ embed_calls = <<>>
                  /\ upsert_calls = <<>>
                  /\ ~IsDeleteEvent(wh_data) => wh_result = FALSE

\* an UPDATE event whose add_document failed at the upsert returned False
C21_Witness ==
    /\ wpc = "returned"
    /\ wh_data.kind = "dict"
    /\ EventType(wh_data) = "UPDATE"
    /\ wh_rag_calls # <<>>
    /\ upsert_calls # <<>>
    /\ ~upsert_calls[1].ok
    /\ wh_result = FALSE

\* an event with a record that is no mapping returned False
C21_HandlerRaised ==
    /\ wpc = "returned"
    /\ wh_data.kind = "dict"
    /\ EventType(wh_data) = "INSERT"
    /\ RecordOf(wh_data).kind = "none"
    /\ wh_result = FALSE

\* a payload that is no mapping returned False
C21_Malformed ==
    /\ wpc = "returned"
    /\ wh_data.kind = "other"
    /\ wh_result = FALSE

\* a payload without event returned False
C21_MissingEvent ==
    /\ wpc = "returned"
    /\ wh_data.kind = "dict"
    /\ "event" \notin DOMAIN wh_data.map
    /\ wh_result = FALSE

\* a step keeps every record of the index as it is
StoreKept ==
    \A k \in DOMAIN store : k \in DOMAIN store' /\ store'[k] = store[k]

\* the number of events of the log that were INSERT or UPDATE and returned
\* True
RECURSIVE Ingested(_)
Ingested(n) ==
    IF n = 0 THEN 0
    ELSE Ingested(n - 1) +
         (IF wh_log[n].event \in {"INSERT", "UPDATE"} /\ wh_log[n].result
          THEN 1 ELSE 0)

\* between two events the index holds one record for each INSERT and each
\* UPDATE that returned True; a DELETE returned True
StoreCountsIngests ==
    /\ wpc \in {"idle", "received", "returned"} =>
          Cardinality(DOMAIN store) = Ingested(Len(wh_log))
    /\ \A n \in 1..Len(wh_log) : wh_log[n].event = "DELETE" => wh_log[n].result

\* C28: under any sequence of webhook events no step removes or rewrites a
\* record of the index; DELETE returns True and deletes nothing, and UPDATE
\* adds its records beside those of the earlier version, so that after a
\* successful INSERT and a successful UPDATE of a record both versions are
\* stored.
C28_StoreNeverShrinks == [][StoreKept]_vars /\ []StoreCountsIngests

\* after the INSERT and the UPDATE of record 7 the index holds both versions
C28_Witness ==
    /\ wpc = "returned"
    /\ wh_log = <<[event |-> "INSERT", result |-> TRUE],
                  [event |-> "UPDATE", result |-> TRUE]>>
    /\ \E k1, k2 \in DOMAIN store :
          /\ store[k1].metadata["operation"] = <<"INSERT">>
          /\ store[k1].metadata["record_id"] = <<"7">>
          /\ store[k1].metadata["content"] = <<"Table: ", "t", NL, "name", ": ", "Ann">>
          /\ store[k2].metadata["operation"] = <<"UPDATE">>
          /\ store[k2].metadata["record_id"] = <<"7">>
          /\ store[k2].metadata["content"] = <<"Table: ", "t", NL, "name", ": ", "Bea">>

\* a DELETE after a successful INSERT returned True with the record stored
C28_DeleteKeeps ==
    /\ wpc = "returned"
    /\ wh_log = <<[event |-> "INSERT", result |-> TRUE],
                  [event |-> "DELETE", result |-> TRUE]>>
    /\ Cardinality(DOMAIN store) = 1

\* ---------------------------------------------------------------------
\* update_document: the result of the delete
\* ---------------------------------------------------------------------

\* C22: update_document returns True only if both the delete of doc_id and
\* the re-ingest succeeded; when the delete reports failure the update does
\* not report success.
C22_TrueOnlyIfDeleted ==
    (upc = "returned" /\ upd_result = TRUE) =>
        /\ Len(delete_calls) = 1
        /\ delete_calls[1].ok
        /\ result = TRUE

\* update_document returns what its add_document returned, whatever the
\* delete reported
UpdateReturnsIngestResult ==
    upc = "returned" => upd_result = result

\* the delete of a stored record failed, the ingest succeeded, and
\* update_document returned True with the record still stored
C22_FailedDeleteReportedTrue ==
    /\ upc = "returned"
    /\ upd_result = TRUE
    /\ ~delete_calls[1].ok
    /\ upd_doc_id \in DOMAIN store
    /\ upsert_calls # <<>>

\* ---------------------------------------------------------------------
\* query: what a failure of each step gives
\* ---------------------------------------------------------------------

\* C23: when the embedding call or the generation call raises, query
\* returns exactly 'Sorry, an error occurred.'; when the query of the
\* index fails, query_similar gives an empty list of matches, the
\* generation provider is not called and query returns the not-found
\* phrase, as it does for an index that answers with no match.
C23_FailureByStep ==
    qpc = "returned" =>
        /\ ~calls[1].ok =>
              /\ response = <<"Sorry, an error occurred.">>
              /\ Len(calls) = 1
        /\ (Len(calls) = 3 /\ ~calls[3].ok) =>
              response = <<"Sorry, an error occurred.">>
        /\ (Len(calls) >= 2 /\ ~calls[2].ok) =>
              /\ similar_docs = <<>>
              /\ Len(calls) = 2
              /\ response =
                    <<"I could not find this information in the patient's medical records.">>
        /\ (Len(calls) >= 2 /\ calls[2].ok /\ similar_docs = <<>>) =>
              /\ Len(calls) = 2
              /\ response =
                    <<"I could not find this information in the patient's medical records.">>

\* a query whose index query failed returned the not-found phrase
C23_Witness ==
    /\ qpc = "returned"
    /\ Len(calls) = 2
    /\ calls[1].ok
    /\ ~calls[2].ok
    /\ response = NotFoundPhrase

\* a query whose generation call raised returned the error phrase
C23_GenerationRaised ==
    /\ qpc = "returned"
    /\ Len(calls) = 3
    /\ ~calls[3].ok
    /\ response = ErrorPhrase

\* ---------------------------------------------------------------------
\* ingest and retrieval of one document
\* ---------------------------------------------------------------------

\* t occurs in s
Contains(s, t) ==
    \E i \in 0..(Len(s) - Len(t)) : SubSeq(s, i + 1, i + Len(t)) = t

\* the identifying fields: the label of the line of the embeddable text and
\* the label of the attribution
IdentifyingFields == <<
    [line |-> "Patient Name: ", prefix |-> "Patient: "],
    [line |-> "Patient ID: ",   prefix |-> "Patient ID: "],
    [line |-> "Date/Time: ",    prefix |-> "Date: "],
    [line |-> "Doctor: ",       prefix |-> "Doctor: "] >>

\* the embeddable text of the chunk that the record of a match came from
EmbeddedTextOf(m) ==
    LET i == CHOOSE i \in 1..Len(vector_data) : vector_data[i].metadata = m
    IN  embed_calls[i].text

\* the segment of a match names every identifying field that the
\* embeddable text of its chunk has a line for, with the value of the line
SegmentAgrees(segment, m) ==
    \A f \in 1..Len(IdentifyingFields) : \A k \in DOMAIN doc_metadata :
        LET v == doc_metadata[k]
        IN  (v # <<>> /\ Contains(EmbeddedTextOf(m),
                                  <<IdentifyingFields[f].line>> \o v \o <<NL>>))
            => /\ segment[1] = "["
               /\ Contains(segment, <<IdentifyingFields[f].prefix>> \o v)

\* C24: for every metadata mapping, the synonym keys patient, id,
\* visit_date and date included, when a stored chunk is returned as a match
\* its context segment carries an attribution naming each of patient name,
\* patient id, date/time and doctor that add_document rendered into the
\* chunk's embeddable text, with the same value.
C24_IngestAndRetrievalAgree ==
    Assembled =>
        \A j \in 1..Len(context_parts) :
            SegmentAgrees(context_parts[j], similar_docs[Ranks[j]].map)

\* the same for the documents stored under the keys that query reads
\* itself: patient_name, patient_id, date_time, doctor
AgreeOnKeysOfQuery ==
    (Assembled /\ DOMAIN doc_metadata \subseteq
                    {"patient_name", "patient_id", "date_time", "doctor"}) =>
        \A j \in 1..Len(context_parts) :
            SegmentAgrees(context_parts[j], similar_docs[Ranks[j]].map)

\* a chunk stored with the name under patient was embedded with a name
\* line and came back as a segment without attribution
C24_SynonymLost ==
    /\ Assembled
    /\ doc_metadata = [patient |-> <<"Bob">>]
    /\ Len(context_parts) = 1
    /\ Contains(embed_calls[1].text, <<"Patient Name: ", "Bob", NL>>)
    /\ context_parts[1] = similar_docs[1].map["content"]

\* a chunk stored under the keys of the SOAP endpoint came back with its
\* attribution
C24_CanonicalKept ==
    /\ Assembled
    /\ "patient_name" \in DOMAIN doc_metadata
    /\ doc_metadata["patient_name"] = <<"Jane">>
    /\ Len(context_parts) = 2
    /\ Contains(context_parts[1], <<"Patient: ", "Jane">>)

\* ---------------------------------------------------------------------
\* the metadata objects of add_document
\* ---------------------------------------------------------------------

\* C27: add_document leaves the caller's metadata mapping as it was, in
\* every state of the call and whether it returns True or False, and each
\* record has a metadata object of its own, distinct from the caller's and
\* from every other record's, which keeps the content, chunk_index and
\* total_chunks written for its chunk while the later chunks are processed.
C27_CallerMetadataKept ==
    /\ md_ref # NoRef => heap[md_ref] = md_before
    /\ \A j \in 1..Len(md_records) :
          LET r == md_records[j].metadata
          IN  /\ r # md_ref
              /\ \A l \in 1..Len(md_records) :
                    l # j => md_records[l].metadata # r
              /\ heap[r] = ChunkMetadata(md_before, md_chunks[j], j - 1,
                                         Len(md_chunks))

\* a call with a mapping that has its own content key returned True with
\* four records: the caller's content is still 'mine', each record has the
\* content of its chunk
C27_Witness ==
    /\ hpc = "returned"
    /\ md_result
    /\ md_ref # NoRef
    /\ md_before = [content |-> <<"mine">>]
    /\ heap[md_ref]["content"] = <<"mine">>
    /\ Len(md_records) = 4
    /\ \A j \in 1..4 : heap[md_records[j].metadata]["content"] = md_chunks[j]

\* a call that failed after building two records
C27_FailedCall ==
    /\ hpc = "returned"
    /\ ~md_result
    /\ md_ref # NoRef
    /\ md_before # EmptyDict
    /\ Len(md_records) = 2

====
